---- MODULE Spec2Model ----
(***************************************************************************)
(* Blasting Overview: hole-pattern calculator (models/pattern_calculator)  *)
(* and the Streamlit script (app.py) that derives the hole design, the     *)
(* hole count, the explosive charge and the positions handed to the views. *)
(*                                                                         *)
(* Numbers.  The program computes in binary floating point.  The model     *)
(* computes in exact rational arithmetic: a number is a record             *)
(* [num |-> n, den |-> d] with d > 0 and gcd(n, d) = 1, so two numbers are *)
(* equal exactly when their records are equal.  Quantities that carry the  *)
(* factor pi (hole volume, charge) are kept as the rational coefficient of *)
(* pi.                                                                     *)
(***************************************************************************)
EXTENDS Integers, Sequences, FiniteSets, TLC

VARIABLES
    args,       \* arguments of the pattern-calculator call under way
    ret,        \* what that call returned ("pending" before it returns)
    widgets,    \* the values of the script's input widgets
    run,        \* the names the last script run bound (module namespace)
    session,    \* st.session_state
    clock       \* wall clock read by save_current_config (timestamps)

vars == <<args, ret, widgets, run, session, clock>>

None == "None"

-----------------------------------------------------------------------------
(* Exact rational arithmetic (Python float operators /, *, +, -, int, round) *)

\* Evaluation.  An operator that uses an argument several times first binds it
\* to its value, as the one element of a singleton set, so that the argument is
\* evaluated once.

Abs(n) == IF n < 0 THEN -n ELSE n

RECURSIVE GCD(_, _)
GCD(x, y) ==
    CHOOSE g \in {IF b = 0 THEN a ELSE GCD(b, a % b) : a \in {x}, b \in {y}} : TRUE

\* n / d in lowest terms, the sign in the numerator
Rat(n, d) ==
    CHOOSE q \in {[num |-> (IF b < 0 THEN -a ELSE a) \div g, den |-> Abs(b) \div g] :
                     <<a, b, g>> \in {<<n, d, GCD(Abs(n), Abs(d))>>}} : TRUE

R(n) == [num |-> n, den |-> 1]

RAdd(x, y) ==
    CHOOSE sum \in {Rat(a.num * (b.den \div g) + b.num * (a.den \div g),
                        (a.den \div g) * b.den) :
                       <<a, b, g>> \in {<<x, y, GCD(x.den, y.den)>>}} : TRUE

RNeg(a) == [num |-> -a.num, den |-> a.den]

RSub(a, b) == RAdd(a, RNeg(b))

\* the common factors are cancelled before the products are formed
RMul(x, y) ==
    CHOOSE product \in {[num |-> (a.num \div g1) * (b.num \div g2),
                         den |-> (a.den \div g2) * (b.den \div g1)] :
                           <<a, b, g1, g2>> \in {<<x, y, GCD(Abs(x.num), y.den),
                                                   GCD(Abs(y.num), x.den)>>}} : TRUE

\* a / b for b # 0 (the callers test b = 0 first: Python raises there)
RDiv(a, b) ==
    RMul(a, IF b.num < 0 THEN [num |-> -b.den, den |-> -b.num]
                         ELSE [num |-> b.den, den |-> b.num])

RLt(x, y) == \E a \in {x}, b \in {y} : a.num * b.den < b.num * a.den
RLe(x, y) == \E a \in {x}, b \in {y} : a.num * b.den <= b.num * a.den

\* Python int(x) of a float: truncation toward zero
PyInt(a) ==
    IF a.num >= 0 THEN a.num \div a.den ELSE -((-a.num) \div a.den)

\* Python max(1, n)
Max(a, b) == IF a >= b THEN a ELSE b
Min(a, b) == IF a <= b THEN a ELSE b

\* n points that stop one step short of stop (endpoint=False)
LinspaceOpen(start, stop, n) ==
    [i \in 1..n |-> RAdd(start, RMul(R(i - 1), RDiv(RSub(stop, start), R(n))))]

\* np.linspace(start, stop, n): n points, start + i*(stop-start)/(n-1); one
\* point is start itself
Linspace(start, stop, n) ==
    [i \in 1..n |->
        IF n = 1 THEN start
        ELSE RAdd(start, RMul(R(i - 1), RDiv(RSub(stop, start), R(n - 1))))]

Half(a) == RDiv(a, R(2))

-----------------------------------------------------------------------------
(* models/pattern_calculator.py                                             *)

\* the optional argument num_holes: None, or an integer k
NoLimit == << >>
Limit(k) == <<k>>

Returned(xs, ys, counts) ==
    [status |-> "returned", xs |-> xs, ys |-> ys, counts |-> counts]

\* an exception leaves the function: nothing is returned
Raised(exc) ==
    [status |-> exc, xs |-> << >>, ys |-> << >>, counts |-> << >>]

Pending ==
    [status |-> "pending", xs |-> << >>, ys |-> << >>, counts |-> << >>]

\* the limit test of both loops: num_holes is not None and len(...) >= num_holes
LimitReached(xs, num_holes) ==
    num_holes # NoLimit /\ Len(xs) >= num_holes[1]

\* mutant: the guard with strict comparisons
DegenerateGeometryStrict(burden, spacing) ==
    burden.num < 0 \/ spacing.num < 0

\* if burden <= 0 or spacing <= 0
DegenerateGeometry(burden, spacing) ==
    burden.num <= 0 \/ spacing.num <= 0

\* for y_pos in y_positions: for x_pos in x_positions: append; return at the limit
RECURSIVE SquareLoop(_, _, _, _, _, _, _)
SquareLoop(y_positions, x_positions, r, c, xs, ys, num_holes) ==
    IF r > Len(y_positions) THEN <<xs, ys>>
    ELSE IF c > Len(x_positions)
         THEN SquareLoop(y_positions, x_positions, r + 1, 1, xs, ys, num_holes)
    ELSE LET xs2 == Append(xs, x_positions[c])
             ys2 == Append(ys, y_positions[r])
         IN  IF LimitReached(xs2, num_holes) THEN <<xs2, ys2>>
             ELSE SquareLoop(y_positions, x_positions, r, c + 1, xs2, ys2, num_holes)

\* a row count that depends on the number of calls made before this one
SquareRowsShared(width, burden) == Max(1, PyInt(RDiv(width, burden)) - clock)

SquareRows(width, burden) == Max(1, PyInt(RDiv(width, burden)))

SquareHolesPerRow(length, spacing) == Max(1, PyInt(RDiv(length, spacing)))

SquareYPositions(width, burden, num_rows) ==
    Linspace(Half(burden), RSub(width, Half(burden)), num_rows)

\* a row laid out from the far end of the bench back to the near one
SquareXPositionsDescending(length, spacing, holes_per_row) ==
    Linspace(RSub(length, Half(spacing)), Half(spacing), holes_per_row)

SquareXPositions(length, spacing, holes_per_row) ==
    Linspace(Half(spacing), RSub(length, Half(spacing)), holes_per_row)

\* mutant: the row is fitted to the limit before the grid is generated
CalculateSquarePatternFitted(length, width, burden, spacing, num_holes) ==
    IF DegenerateGeometry(burden, spacing) THEN Returned(<< >>, << >>, <<0, 0>>)
    ELSE IF burden.num = 0 \/ spacing.num = 0 THEN Raised("ZeroDivisionError")
    ELSE LET num_rows      == SquareRows(width, burden)
             natural       == SquareHolesPerRow(length, spacing)
             holes_per_row == IF num_holes # NoLimit /\ num_holes[1] >= 1
                              THEN Min(natural, num_holes[1]) ELSE natural
             y_positions   == SquareYPositions(width, burden, num_rows)
             x_positions   == SquareXPositions(length, spacing, holes_per_row)
             holes == SquareLoop(y_positions, x_positions, 1, 1, << >>, << >>, num_holes)
         IN  Returned(holes[1], holes[2], <<num_rows, holes_per_row>>)

CalculateSquarePattern(length, width, burden, spacing, num_holes) ==
    IF DegenerateGeometry(burden, spacing) THEN Returned(<< >>, << >>, <<0, 0>>)
    ELSE IF burden.num = 0 \/ spacing.num = 0 THEN Raised("ZeroDivisionError")
    ELSE LET num_rows      == SquareRows(width, burden)
             holes_per_row == SquareHolesPerRow(length, spacing)
             y_positions   == SquareYPositions(width, burden, num_rows)
             x_positions   == SquareXPositions(length, spacing, holes_per_row)
             holes == SquareLoop(y_positions, x_positions, 1, 1, << >>, << >>, num_holes)
         IN  Returned(holes[1], holes[2], <<num_rows, holes_per_row>>)

StaggeredHolesPerRowOdd(length, spacing) ==
    Max(1, PyInt(RDiv(RSub(length, Half(spacing)), spacing)) + 1)

\* an even-row count without the hole at the start of the row
StaggeredHolesPerRowEvenShort(length, spacing) ==
    Max(1, PyInt(RDiv(RSub(length, spacing), spacing)))

StaggeredHolesPerRowEven(length, spacing) ==
    Max(1, PyInt(RDiv(RSub(length, spacing), spacing)) + 1)

\* x_positions of the row with 0-based index row_idx
StaggeredXPositions(length, spacing, row_idx, per_odd, per_even) ==
    IF row_idx % 2 = 0
    THEN Linspace(Half(spacing), RSub(length, Half(spacing)), per_odd)
    ELSE Linspace(spacing, RSub(length, spacing), per_even)

\* for row_idx, y_pos in enumerate(y_positions): for x_pos in x_positions: ...
RECURSIVE StaggeredLoop(_, _, _, _, _, _, _, _, _, _)
StaggeredLoop(length, spacing, per_odd, per_even, y_positions, r, c, xs, ys, num_holes) ==
    IF r > Len(y_positions) THEN <<xs, ys>>
    ELSE LET x_positions ==
                 StaggeredXPositions(length, spacing, r - 1, per_odd, per_even)
         IN  IF c > Len(x_positions)
             THEN StaggeredLoop(length, spacing, per_odd, per_even, y_positions,
                                r + 1, 1, xs, ys, num_holes)
             ELSE LET xs2 == Append(xs, x_positions[c])
                      ys2 == Append(ys, y_positions[r])
                  IN  IF LimitReached(xs2, num_holes) THEN <<xs2, ys2>>
                      ELSE StaggeredLoop(length, spacing, per_odd, per_even,
                                         y_positions, r, c + 1, xs2, ys2, num_holes)

CalculateStaggeredPattern(length, width, burden, spacing, num_holes) ==
    IF DegenerateGeometry(burden, spacing) THEN Returned(<< >>, << >>, <<0, 0, 0>>)
    ELSE IF burden.num = 0 \/ spacing.num = 0 THEN Raised("ZeroDivisionError")
    ELSE LET num_rows    == SquareRows(width, burden)
             y_positions == SquareYPositions(width, burden, num_rows)
             per_odd     == StaggeredHolesPerRowOdd(length, spacing)
             per_even    == StaggeredHolesPerRowEven(length, spacing)
             holes == StaggeredLoop(length, spacing, per_odd, per_even, y_positions,
                                    1, 1, << >>, << >>, num_holes)
         IN  Returned(holes[1], holes[2], <<num_rows, per_odd, per_even>>)

\* rows that start on the edge of the bench: x_step * hole_idx
ManualRowXsFromEdge(length, num_holes_per_row, num_rows, pattern, row_idx) ==
    [h \in 1..num_holes_per_row |->
        RMul(RDiv(length, R(num_holes_per_row + 1)), R(h - 1))]

\* staggered rows that are never cut at the edge
ManualRowXsUnclamped(length, num_holes_per_row, num_rows, pattern, row_idx) ==
    LET x_step == RDiv(length, R(num_holes_per_row + 1))
    IN  IF pattern = "staggered" /\ row_idx % 2 = 1
        THEN [h \in 1..num_holes_per_row |->
                 RAdd(Half(x_step), RMul(x_step, R(h - 1)))]
        ELSE [h \in 1..num_holes_per_row |-> RMul(x_step, R(h))]

\* the x positions calculate_manual_positions appends for the row row_idx
ManualRowXs(length, num_holes_per_row, num_rows, pattern, row_idx) ==
    LET x_step   == RDiv(length, R(num_holes_per_row + 1))
        x_offset == Half(x_step)
        edge     == RMul(length, Rat(85, 100))
        Offset   == [h \in 1..num_holes_per_row |->
                        RAdd(x_offset, RMul(x_step, R(h - 1)))]
        Inside(x) == RLt(x, edge)
    IN  IF pattern = "staggered" /\ row_idx % 2 = 1
        THEN IF row_idx = num_rows - 1
             THEN LET end_pos == RAdd(RMul(x_step, R(num_holes_per_row)), x_offset)
                  IN  IF RLt(edge, end_pos) THEN SelectSeq(Offset, Inside)
                      ELSE Offset
             ELSE Offset
        ELSE [h \in 1..num_holes_per_row |-> RMul(x_step, R(h))]

RECURSIVE ManualLoop(_, _, _, _, _, _, _, _)
ManualLoop(length, width, num_holes_per_row, num_rows, pattern, row_idx, xs, ys) ==
    IF row_idx >= num_rows THEN <<xs, ys>>
    ELSE LET y_step == RDiv(width, R(num_rows + 1))
             y_pos  == RMul(y_step, R(row_idx + 1))
             row    == ManualRowXs(length, num_holes_per_row, num_rows, pattern, row_idx)
         IN  ManualLoop(length, width, num_holes_per_row, num_rows, pattern,
                        row_idx + 1, xs \o row, ys \o [h \in 1..Len(row) |-> y_pos])

CalculateManualPositions(length, width, num_holes_per_row, num_rows, pattern) ==
    IF num_holes_per_row <= 0 \/ num_rows <= 0 THEN Returned(<< >>, << >>, << >>)
    ELSE LET holes == ManualLoop(length, width, num_holes_per_row, num_rows, pattern,
                                 0, << >>, << >>)
         IN  Returned(holes[1], holes[2], << >>)

-----------------------------------------------------------------------------
(* app.py: one run of the script, from the widget values to the figures     *)
(* Lengths are metres, the hole diameter millimetres, volumes cubic metres, *)
(* densities g/cm3 (rock, explosive table) or kg/m3 (explosive_density).    *)

\* an optional value: absent, or present
Unset == << >>
Set(v) == <<v>>

\* a rounding that sends every tie upwards: floor(x + 1/2)
PyRoundHalfUp(a) == (2 * a.num + a.den) \div (2 * a.den)

\* Python round(x): to the nearest integer, a tie to the even one
PyRound(a) ==
    LET q == a.num \div a.den
        r == a.num % a.den
    IN  IF 2 * r < a.den THEN q
        ELSE IF 2 * r > a.den THEN q + 1
        ELSE IF q % 2 = 0 THEN q ELSE q + 1

\* math.ceil(n / 2) of an integer n >= 0
CeilHalf(n) == (n + 1) \div 2

\* EXPLOSIVE_DENSITIES (g/cm3)
EXPLOSIVE_DENSITIES ==
    [t \in {"ANFO", "Heavy ANFO", "Slurry", "Emulsion"} |->
        CASE t = "ANFO"       -> Rat(85, 100)
          [] t = "Heavy ANFO" -> Rat(1225, 1000)
          [] t = "Slurry"     -> Rat(1175, 1000)
          [] t = "Emulsion"   -> Rat(13, 10)]

\* blast_volume: the full bench, or the number the user entered
BlastVolume(w) ==
    IF w.blast_volume_option = "Full Blast"
    THEN RMul(R(w.length * w.width), w.bench_height)
    ELSE w.entered_volume

\* calculated_burden = 0.024 * hole_diameter + 0.85
CalculatedBurden(hole_diameter) ==
    RAdd(RMul(Rat(24, 1000), R(hole_diameter)), Rat(85, 100))

SquareSpacing(burden) == burden
StaggeredSpacing(burden) == RMul(Rat(115, 100), burden)
RectangularSpacing(burden) == RAdd(RMul(Rat(9, 10), burden), Rat(91, 100))

\* the names the script has bound when it reaches the recommendation (every run
\* starts from an empty module namespace; rock_density and p_wave_velocity are
\* bound further down, by the rock characterization inputs)
BoundBeforeRecommendation ==
    {"loaded_config", "col1", "col2", "config_mode", "length", "width", "height",
     "bench_height", "blast_volume_option", "blast_volume", "calculated_diameter",
     "calculated_diameter_rounded", "hole_diameter", "calculated_burden",
     "square_spacing", "staggered_spacing", "rectangular_spacing"}

\* recommended_pattern, recommended_pattern_name, recommended_spacing; bound is
\* locals() at that statement, the two rock values are read only when bound
RecommendedPattern(bound, rock_density, p_wave_velocity, burden) ==
    IF "rock_density" \in bound /\ "p_wave_velocity" \in bound
    THEN IF RLt(Rat(27, 10), rock_density) \/ RLt(Rat(45, 10), p_wave_velocity)
         THEN [pattern |-> "staggered", name |-> "Staggered",
               spacing |-> StaggeredSpacing(burden)]
         ELSE IF RLt(Rat(25, 10), rock_density) \/ RLt(Rat(35, 10), p_wave_velocity)
         THEN [pattern |-> "square", name |-> "Square or Rectangular",
               spacing |-> RectangularSpacing(burden)]
         ELSE [pattern |-> "square", name |-> "Square or Rectangular",
               spacing |-> SquareSpacing(burden)]
    ELSE [pattern |-> "square", name |-> "Square or Rectangular",
          spacing |-> RectangularSpacing(burden)]

\* a subdrilling of 0.3 B instead of 0.4 B
CalculatedSubdrillingShort(burden) == RMul(Rat(3, 10), burden)

CalculatedSubdrilling(burden) == RMul(Rat(4, 10), burden)
CalculatedStemming(burden) == RMul(R(1), burden)
CalculatedHoleDepth(bench_height, subdrilling) == RAdd(bench_height, subdrilling)

\* a ladder whose bands ask for one of the two conditions only
RockHardnessEither(p_wave_velocity, rock_density) ==
    IF RLt(p_wave_velocity, Rat(25, 10)) \/ RLt(rock_density, Rat(22, 10))
    THEN "Very Soft"
    ELSE IF RLt(p_wave_velocity, Rat(35, 10)) \/ RLt(rock_density, Rat(25, 10))
    THEN "Soft"
    ELSE IF RLt(p_wave_velocity, Rat(45, 10)) \/ RLt(rock_density, Rat(27, 10))
    THEN "Medium"
    ELSE IF RLt(p_wave_velocity, Rat(55, 10)) \/ RLt(rock_density, Rat(29, 10))
    THEN "Hard"
    ELSE "Very Hard"

\* a ladder that reads the velocity only
RockHardnessVelocityOnly(p_wave_velocity, rock_density) ==
    IF RLt(p_wave_velocity, Rat(25, 10)) THEN "Very Soft"
    ELSE IF RLt(p_wave_velocity, Rat(35, 10)) THEN "Soft"
    ELSE IF RLt(p_wave_velocity, Rat(45, 10)) THEN "Medium"
    ELSE IF RLt(p_wave_velocity, Rat(55, 10)) THEN "Hard"
    ELSE "Very Hard"

\* rock_hardness from the two rock inputs
RockHardness(p_wave_velocity, rock_density) ==
    IF RLt(p_wave_velocity, Rat(25, 10)) /\ RLt(rock_density, Rat(22, 10))
    THEN "Very Soft"
    ELSE IF RLt(p_wave_velocity, Rat(35, 10)) /\ RLt(rock_density, Rat(25, 10))
    THEN "Soft"
    ELSE IF RLt(p_wave_velocity, Rat(45, 10)) /\ RLt(rock_density, Rat(27, 10))
    THEN "Medium"
    ELSE IF RLt(p_wave_velocity, Rat(55, 10)) /\ RLt(rock_density, Rat(29, 10))
    THEN "Hard"
    ELSE "Very Hard"

\* a table that gives ANFO to cost-priority damp holes
RecommendedExplosiveDampANFO(water_condition, rock_hardness, cost_sensitivity) ==
    IF water_condition = "Dry"
    THEN IF rock_hardness \in {"Very Soft", "Soft", "Medium"} THEN "ANFO"
         ELSE IF cost_sensitivity = "High (Cost Priority)" THEN "ANFO"
         ELSE "Heavy ANFO"
    ELSE IF water_condition = "Damp"
    THEN IF cost_sensitivity = "High (Cost Priority)" THEN "ANFO"
         ELSE "Heavy ANFO"
    ELSE IF water_condition = "Wet"
    THEN IF cost_sensitivity = "High (Cost Priority)" THEN "Heavy ANFO"
         ELSE "Slurry"
    ELSE IF rock_hardness \in {"Hard", "Very Hard"} THEN "Emulsion"
         ELSE IF cost_sensitivity = "High (Cost Priority)" THEN "Slurry"
         ELSE "Emulsion"

RecommendedExplosive(water_condition, rock_hardness, cost_sensitivity) ==
    IF water_condition = "Dry"
    THEN IF rock_hardness \in {"Very Soft", "Soft", "Medium"} THEN "ANFO"
         ELSE IF cost_sensitivity = "High (Cost Priority)" THEN "ANFO"
         ELSE "Heavy ANFO"
    ELSE IF water_condition = "Damp"
    THEN IF cost_sensitivity = "High (Cost Priority)" THEN "Heavy ANFO"
         ELSE "Heavy ANFO"
    ELSE IF water_condition = "Wet"
    THEN IF cost_sensitivity = "High (Cost Priority)" THEN "Heavy ANFO"
         ELSE "Slurry"
    ELSE IF rock_hardness \in {"Hard", "Very Hard"} THEN "Emulsion"
         ELSE IF cost_sensitivity = "High (Cost Priority)" THEN "Slurry"
         ELSE "Emulsion"

\* explosive_type: recommended from the conditions, or picked by hand
ExplosiveType(w) ==
    IF w.explosive_selection_method = "Best according to conditions"
    THEN RecommendedExplosive(w.water_condition,
                              RockHardness(w.p_wave_velocity, w.rock_density),
                              w.cost_sensitivity)
    ELSE w.explosive_choice

\* pattern: the recommended one, or the radio choice
SelectedPattern(w, recommended) ==
    IF w.pattern_selection_method = "Use recommended pattern"
    THEN recommended.pattern
    ELSE IF w.pattern_choice = "Square or Rectangular" THEN "square"
    ELSE "staggered"

\* the spacing of the recommendation step kept whatever the pattern
CalculatedSpacingRecommended(pattern, burden, recommended_spacing) ==
    recommended_spacing

\* calculated_spacing after the pattern is known
CalculatedSpacing(pattern, burden, recommended_spacing) ==
    IF pattern = "square" THEN burden
    ELSE IF pattern = "staggered" THEN RMul(Rat(115, 100), burden)
    ELSE recommended_spacing

\* num_rows, num_holes_per_row, geometric_holes (automatic mode)
GeometricLayout(pattern, length, width, burden, spacing) ==
    IF pattern = "square"
    THEN LET num_rows == Max(1, PyInt(RDiv(width, burden)))
             per_row  == Max(1, PyInt(RDiv(length, spacing)))
         IN  [num_rows |-> num_rows, num_holes_per_row |-> per_row,
              geometric_holes |-> num_rows * per_row]
    ELSE LET num_rows == Max(1, PyInt(RDiv(width, burden)))
             odd_row  == Max(1, PyInt(RDiv(RSub(length, Half(spacing)), spacing)) + 1)
             even_row == Max(1, PyInt(RDiv(RSub(length, spacing), spacing)) + 1)
             odd_row_count  == CeilHalf(num_rows)
             even_row_count == num_rows - odd_row_count
         IN  [num_rows |-> num_rows, num_holes_per_row |-> Max(odd_row, even_row),
              geometric_holes |-> odd_row_count * odd_row + even_row_count * even_row]

VolumePerHole(burden, spacing, bench_height) ==
    RMul(RMul(burden, spacing), bench_height)

\* num_holes: from the volume (Manual Selection) or the full geometric layout
NumHoles(blast_volume_option, blast_volume, volume_per_hole, geometric_holes) ==
    IF blast_volume_option = "Manual Selection"
    THEN Max(1, IF volume_per_hole.num > 0
                THEN PyRound(RDiv(blast_volume, volume_per_hole)) ELSE 1)
    ELSE geometric_holes

\* a column length that is never reported below zero
ExplosiveColumnLengthClamped(bench_height, subdrilling, stemming) ==
    IF RLt(RSub(RAdd(bench_height, subdrilling), stemming), R(0)) THEN R(0)
    ELSE RSub(RAdd(bench_height, subdrilling), stemming)

\* explosive_column_length = bench_height + calculated_subdrilling - calculated_stemming
ExplosiveColumnLength(bench_height, subdrilling, stemming) ==
    RSub(RAdd(bench_height, subdrilling), stemming)

\* available_hole_volume = math.pi * hole_diameter_m**2 / 4 * explosive_column_length,
\* as the coefficient of pi
AvailableHoleVolume(hole_diameter, explosive_column_length) ==
    LET hole_diameter_m == Rat(hole_diameter, 1000)
    IN  RMul(RDiv(RMul(hole_diameter_m, hole_diameter_m), R(4)), explosive_column_length)

\* charge_per_hole (kg, coefficient of pi); explosive_density is kg/m3
ChargePerHole(explosive_type, available_hole_volume) ==
    RMul(RMul(EXPLOSIVE_DENSITIES[explosive_type], R(1000)), available_hole_volume)

TotalExplosive(charge_per_hole, num_holes) == RMul(charge_per_hole, R(num_holes))

\* blast_volume / total_explosive if total_explosive > 0 else 0 (coefficient of 1/pi)
PowderFactorVolPerExplosive(blast_volume, total_explosive) ==
    IF total_explosive.num > 0 THEN RDiv(blast_volume, total_explosive) ELSE R(0)

\* total_explosive / blast_volume if blast_volume > 0 else 0 (coefficient of pi)
PowderFactorExplosivePerVol(blast_volume, total_explosive) ==
    IF blast_volume.num > 0 THEN RDiv(total_explosive, blast_volume) ELSE R(0)

\* the module namespace after the calculations of a run (before the handlers)
Calculations(w) ==
    LET bench_height  == IF RLt(R(w.height), w.bench_height) THEN R(w.height)
                         ELSE w.bench_height
        wb            == [w EXCEPT !.bench_height = bench_height]
        blast_volume  == BlastVolume(wb)
        burden        == CalculatedBurden(w.hole_diameter)
        recommended   == RecommendedPattern(BoundBeforeRecommendation, w.rock_density,
                                            w.p_wave_velocity, burden)
        subdrilling   == CalculatedSubdrilling(burden)
        stemming      == CalculatedStemming(burden)
        hole_depth    == CalculatedHoleDepth(bench_height, subdrilling)
        explosive     == ExplosiveType(w)
        pattern       == SelectedPattern(w, recommended)
        spacing       == CalculatedSpacing(pattern, burden, recommended.spacing)
        layout        == GeometricLayout(pattern, R(w.length), R(w.width), burden, spacing)
        per_hole      == VolumePerHole(burden, spacing, bench_height)
        num_holes     == NumHoles(w.blast_volume_option, blast_volume, per_hole,
                                  layout.geometric_holes)
        column        == ExplosiveColumnLength(bench_height, subdrilling, stemming)
        hole_volume   == AvailableHoleVolume(w.hole_diameter, column)
        charge        == ChargePerHole(explosive, hole_volume)
        total         == TotalExplosive(charge, num_holes)
    IN  [length |-> w.length, width |-> w.width, height |-> w.height,
         explosive_selection_method |-> w.explosive_selection_method,
         water_condition |-> w.water_condition,
         rock_density |-> w.rock_density,
         p_wave_velocity |-> w.p_wave_velocity,
         cost_sensitivity |-> w.cost_sensitivity,
         pattern_selection_method |-> w.pattern_selection_method,
         bench_height |-> bench_height,
         blast_volume_option |-> w.blast_volume_option,
         blast_volume |-> blast_volume,
         hole_diameter |-> w.hole_diameter,
         calculated_burden |-> burden,
         recommended_pattern |-> recommended.pattern,
         recommended_pattern_name |-> recommended.name,
         recommended_spacing |-> recommended.spacing,
         calculated_subdrilling |-> subdrilling,
         calculated_stemming |-> stemming,
         calculated_hole_depth |-> hole_depth,
         explosive_type |-> explosive,
         pattern |-> pattern,
         calculated_spacing |-> spacing,
         num_rows |-> layout.num_rows,
         num_holes_per_row |-> layout.num_holes_per_row,
         geometric_holes |-> layout.geometric_holes,
         volume_per_hole |-> per_hole,
         num_holes |-> num_holes,
         explosive_column_length |-> column,
         available_hole_volume |-> hole_volume,
         charge_per_hole |-> charge,
         total_explosive |-> total,
         powder_factor_vol_per_explosive |->
             PowderFactorVolPerExplosive(blast_volume, total),
         powder_factor_explosive_per_vol |->
             PowderFactorExplosivePerVol(blast_volume, total)]

\* Python lst[:k] for k >= 0
Take(lst, k) ==
    CHOOSE head \in {SubSeq(l, 1, Min(k, Len(l))) : l \in {lst}} : TRUE

\* [v] * n
Repeat(v, n) == CHOOSE lst \in {[i \in 1..n |-> e] : e \in {v}} : TRUE

\* st.session_state of a new session, after the script's first statements
FreshSession ==
    [hole_radii      |-> Repeat(R(5), 25),
     hole_depths     |-> Repeat(R(15), 25),
     recent_configs  |-> << >>,
     exceed_3d_limit |-> Unset,
     fig             |-> Unset,
     show_3d         |-> Unset,
     figs_2d         |-> Unset,
     show_2d         |-> Unset]

\* the hole parameter inputs: one radius for all holes, or one input per hole for
\* the first 12 holes; every radius input holds its default, hole_diameter / 2000
HoleParameters(sess, apply_to_all, ns) ==
    LET radius == Rat(ns.hole_diameter, 2000)
        shown  == Min(ns.num_holes, 12)
    IN  IF apply_to_all
        THEN [sess EXCEPT !.hole_radii  = Repeat(radius, 100),
                          !.hole_depths = Repeat(ns.calculated_hole_depth, 100)]
        ELSE [sess EXCEPT
                 !.hole_radii  = [i \in 1..Len(sess.hole_radii) |->
                                     IF i <= shown THEN radius ELSE sess.hole_radii[i]],
                 !.hole_depths = [i \in 1..Len(sess.hole_depths) |->
                                     IF i <= shown THEN ns.calculated_hole_depth
                                     ELSE sess.hole_depths[i]]]

\* locals() inside save_current_config while the dictionary is built: the
\* function has no local variable yet, the script's names are globals
SaveConfigLocals == {}

\* a save that never removes an entry
SaveCurrentConfigUnbounded(sess, ns, now) ==
    [sess EXCEPT !.recent_configs =
        <<[timestamp |-> now, num_holes |-> ns.num_holes]>> \o @]

\* save_current_config(): the snapshot, put in front of recent_configs
SaveCurrentConfig(sess, ns, now) ==
    LET Local(name, value, default) ==
            IF name \in SaveConfigLocals THEN value ELSE default
        config ==
            [timestamp |-> now,
             bench_height |-> ns.bench_height,
             hole_diameter |-> ns.hole_diameter,
             explosive_type |-> ns.explosive_type,
             explosive_selection_method |->
                 Local("explosive_selection_method", ns.explosive_selection_method,
                       "Manual selection"),
             water_condition |-> Local("water_condition", ns.water_condition, "Dry"),
             rock_density |-> Local("rock_density", ns.rock_density, Rat(25, 10)),
             p_wave_velocity |-> Local("p_wave_velocity", ns.p_wave_velocity, Rat(35, 10)),
             cost_sensitivity |-> Local("cost_sensitivity", ns.cost_sensitivity, "Medium"),
             pattern |-> ns.pattern,
             pattern_selection_method |->
                 Local("pattern_selection_method", ns.pattern_selection_method,
                       "Use recommended pattern"),
             rock_type |-> "medium",
             length |-> ns.length,
             width |-> ns.width,
             height |-> ns.height,
             calculated_burden |-> ns.calculated_burden,
             calculated_spacing |-> ns.calculated_spacing,
             default_stemming |-> ns.calculated_stemming,
             default_subdrilling |-> ns.calculated_subdrilling,
             hole_depth |-> ns.calculated_hole_depth,
             blast_volume |-> ns.blast_volume,
             blast_volume_option |-> ns.blast_volume_option,
             num_holes |-> ns.num_holes,
             charge_per_hole |-> Local("charge_per_hole", ns.charge_per_hole, R(0)),
             total_explosive |-> Local("total_explosive", ns.total_explosive, R(0)),
             powder_factor_vol_per_explosive |->
                 Local("powder_factor_vol_per_explosive",
                       ns.powder_factor_vol_per_explosive, R(0)),
             powder_factor_explosive_per_vol |->
                 Local("powder_factor_explosive_per_vol",
                       ns.powder_factor_explosive_per_vol, R(0))]
        kept == IF Len(sess.recent_configs) >= 5
                THEN SubSeq(sess.recent_configs, 1, Len(sess.recent_configs) - 1)
                ELSE sess.recent_configs
    IN  [sess EXCEPT !.recent_configs = <<config>> \o kept]

\* the x positions the handlers place in the row with 0-based index row_idx:
\* x_grid[:-1], shifted by spacing/2 in the odd rows of a staggered pattern and
\* kept when 0 <= x <= length
GridRowXs(pattern, length, spacing, row_idx) ==
    LET Kept(x) == RLe(R(0), x) /\ RLe(x, length)
    IN  CHOOSE row_x_positions \in
            {IF pattern = "square" \/ row_idx % 2 = 0 THEN cells
             ELSE SelectSeq([i \in 1..Len(cells) |-> RAdd(cells[i], shift)], Kept) :
                cells \in {SubSeq(x_grid, 1, Len(x_grid) - 1) :
                              x_grid \in {Linspace(R(0), length,
                                                   PyInt(RDiv(length, spacing)) + 1)}},
                shift \in {Half(spacing)}} : TRUE

\* the two nested loops of a handler, left when len(hole_positions_x) >= num_holes;
\* rows[r] holds the x positions of row r, y_rows[r] its y
RECURSIVE GridLoop(_, _, _, _, _, _, _)
GridLoop(rows, y_rows, r, c, xs0, ys0, num_holes) ==
    CHOOSE holes \in
        {IF r > Len(y_rows) THEN <<xs, ys>>
         ELSE IF c > Len(rows[r])
              THEN IF Len(xs) >= num_holes THEN <<xs, ys>>
                   ELSE GridLoop(rows, y_rows, r + 1, 1, xs, ys, num_holes)
              ELSE IF Len(xs) + 1 >= num_holes
                   THEN <<Append(xs, rows[r][c]), Append(ys, y_rows[r])>>
                   ELSE GridLoop(rows, y_rows, r, c + 1, Append(xs, rows[r][c]),
                                 Append(ys, y_rows[r]), num_holes) :
            xs \in {xs0}, ys \in {ys0}} : TRUE

\* hole positions of the automatic mode, as both handlers generate them, with the
\* num_rows / holes-per-row values they rebind: len(y_grid) - 1 and
\* len(x_grid) - 1 = int(length / calculated_spacing)
GridPositions(ns) ==
    LET length == R(ns.length)
        width  == R(ns.width)
        Rows(y_rows) ==
            [r \in 1..Len(y_rows) |->
                GridRowXs(ns.pattern, length, ns.calculated_spacing, r - 1)]
        Holes(y_rows) ==
            CHOOSE holes \in {GridLoop(rows, y_rows, 1, 1, << >>, << >>, ns.num_holes) :
                                 rows \in {Rows(y_rows)}} : TRUE
    IN  CHOOSE grid \in
            {[hole_positions_x |-> Take(holes[1], ns.num_holes),
              hole_positions_y |-> Take(holes[2], ns.num_holes),
              num_rows |-> Len(y_grid) - 1,
              holes_per_row |-> x_count] :
                <<y_grid, x_count, holes>> \in
                    {<<y, PyInt(RDiv(length, ns.calculated_spacing)),
                       Holes(SubSeq(y, 1, Len(y) - 1))>> :
                        y \in {Linspace(R(0), width,
                                        PyInt(RDiv(width, ns.calculated_burden)) + 1)}}} :
            TRUE

\* a 3D call that caps num_holes only and passes the lists whole
View3DUntruncated(ns, sess, grid, num_holes_3d, explosive_lengths) ==
    [view |-> "3d",
     num_holes |-> num_holes_3d,
     hole_radii |-> sess.hole_radii,
     hole_depths |-> sess.hole_depths,
     explosive_lengths |-> explosive_lengths,
     hole_positions_x |-> grid.hole_positions_x,
     hole_positions_y |-> grid.hole_positions_y,
     burden |-> ns.calculated_burden,
     spacing |-> ns.calculated_spacing,
     pattern |-> ns.pattern,
     original_num_holes |-> ns.num_holes]

\* create_cuboid_with_labeled_holes: the figure, as what it was drawn from
View3D(ns, sess, grid, num_holes_3d, explosive_lengths) ==
    [view |-> "3d",
     num_holes |-> num_holes_3d,
     hole_radii |-> Take(sess.hole_radii, num_holes_3d),
     hole_depths |-> Take(sess.hole_depths, num_holes_3d),
     explosive_lengths |-> Take(explosive_lengths, num_holes_3d),
     hole_positions_x |-> Take(grid.hole_positions_x, num_holes_3d),
     hole_positions_y |-> Take(grid.hole_positions_y, num_holes_3d),
     burden |-> ns.calculated_burden,
     spacing |-> ns.calculated_spacing,
     pattern |-> ns.pattern,
     original_num_holes |-> ns.num_holes]

\* hole_depths_safe / hole_radii_safe: a copy, padded with entry 0 up to num_holes
Padded(lst, num_holes) ==
    CHOOSE safe \in {[i \in 1..Max(Len(l), num_holes) |->
                         IF i <= Len(l) THEN l[i] ELSE l[1]] : l \in {lst}} : TRUE

\* the 2D figures, as what they were drawn from: the top view gets the sliced
\* radii, the other views the padded lists
Views2D(ns, sess, grid, explosive_lengths) ==
    [view |-> "2d",
     num_holes |-> ns.num_holes,
     top_hole_radii |-> Take(sess.hole_radii, ns.num_holes),
     hole_radii |-> Padded(sess.hole_radii, ns.num_holes),
     hole_depths |-> Padded(sess.hole_depths, ns.num_holes),
     explosive_lengths |-> Take(explosive_lengths, ns.num_holes),
     hole_positions_x |-> Take(grid.hole_positions_x, ns.num_holes),
     hole_positions_y |-> Take(grid.hole_positions_y, ns.num_holes),
     burden |-> ns.calculated_burden,
     spacing |-> ns.calculated_spacing,
     pattern |-> ns.pattern,
     section_explosive_length |-> ns.explosive_column_length]

\* create_2d_cross_section picks unique_rows[selected_cross_section]; with no
\* hole the list is empty and the index -1 raises
CrossSectionRaises(hole_positions_y) == Len(hole_positions_y) = 0

\* what a run binds besides the calculations
NoHandler ==
    [button |-> "none", hole_positions_x |-> << >>, hole_positions_y |-> << >>,
     exception |-> None, rerun |-> FALSE]

\* explosive_lengths = [calculated_hole_depth - calculated_stemming] * num_holes
ExplosiveLengths(ns) ==
    Repeat(RSub(ns.calculated_hole_depth, ns.calculated_stemming), ns.num_holes)

\* the names a handler binds or rebinds in the module namespace
HandlerNames(ns, grid, button, exception, rerun) ==
    [ns EXCEPT !.num_rows = grid.num_rows,
               !.num_holes_per_row = IF ns.pattern = "square" THEN @
                                     ELSE grid.holes_per_row]
    @@ [button |-> button,
        hole_positions_x |-> grid.hole_positions_x,
        hole_positions_y |-> grid.hole_positions_y,
        exception |-> exception, rerun |-> rerun]

\* if generate_3d_button: ... st.rerun()
Handle3D(ns, sess, now) ==
    CHOOSE after \in
        {[run |-> HandlerNames(ns, grid, "3d", None, TRUE),
          session |->
              [saved EXCEPT
                  !.exceed_3d_limit = Set(ns.num_holes > 50),
                  !.fig = Set(View3D(ns, saved, grid, Min(ns.num_holes, 50),
                                     explosive_lengths)),
                  !.show_3d = Set(TRUE)]] :
            saved \in {SaveCurrentConfig(sess, ns, now)},
            explosive_lengths \in {ExplosiveLengths(ns)},
            grid \in {GridPositions(ns)}} : TRUE

\* if generate_2d_button: ... st.rerun(); an exception of a view ends the run
\* before the figures are stored
Handle2D(ns, sess, now) ==
    CHOOSE after \in
        {IF CrossSectionRaises(Take(grid.hole_positions_y, ns.num_holes))
         THEN [run |-> HandlerNames(ns, grid, "2d", "IndexError", FALSE),
               session |-> [saved EXCEPT !.exceed_3d_limit = Set(ns.num_holes > 50)]]
         ELSE [run |-> HandlerNames(ns, grid, "2d", None, TRUE),
               session |->
                   [saved EXCEPT
                       !.exceed_3d_limit = Set(ns.num_holes > 50),
                       !.figs_2d = Set(Views2D(ns, saved, grid, explosive_lengths)),
                       !.show_2d = Set(TRUE)]] :
            saved \in {SaveCurrentConfig(sess, ns, now)},
            explosive_lengths \in {ExplosiveLengths(ns)},
            grid \in {GridPositions(ns)}} : TRUE

\* one run of the script: the calculations, the hole parameter inputs, then the
\* handler of the button that was pressed
ScriptRun(w, sess, button, now) ==
    CHOOSE after \in
        {IF button = "3d" THEN Handle3D(ns, HoleParameters(sess, w.apply_to_all, ns), now)
         ELSE IF button = "2d"
         THEN Handle2D(ns, HoleParameters(sess, w.apply_to_all, ns), now)
         ELSE [run |-> ns @@ NoHandler,
               session |-> HoleParameters(sess, w.apply_to_all, ns)] :
            ns \in {Calculations(w)}} : TRUE

-----------------------------------------------------------------------------
(* models/flyrock_calculator.py: RothFlyrockCalculator.  A square root is   *)
(* kept as its radicand: the velocity is coefficient * sqrt(radicand), its  *)
(* square coefficient^2 * radicand.                                         *)

\* the result of evaluating a formula or calling a calculator
Evaluated(value) == [status |-> "returned", value |-> value]

\* an exception leaves the calculator
Failed(exc) == [status |-> exc, value |-> None]

\* 27.4 * math.sqrt(powder_factor * explosive_density / rock_density)
CalculateInitialVelocity(powder_factor, rock_density, explosive_density) ==
    IF rock_density.num = 0 THEN Failed("ZeroDivisionError")
    ELSE LET radicand == RDiv(RMul(powder_factor, explosive_density), rock_density)
         IN  IF radicand.num < 0 THEN Failed("ValueError")
             ELSE Evaluated([coefficient |-> Rat(274, 10), radicand |-> radicand])

\* calculate_max_distance: sin(2 * radians(45)) is 1.0, g is 9.81
CalculateMaxDistance(burden, powder_factor, rock_density, explosive_density, hole_diameter, stemming_length) ==
    LET v0 == CalculateInitialVelocity(powder_factor, rock_density, explosive_density)
    IN  IF v0.status # "returned" THEN v0
        ELSE IF hole_diameter.num = 0 THEN Failed("ZeroDivisionError")
        ELSE LET max_distance ==
                     RDiv(RMul(RMul(v0.value.coefficient, v0.value.coefficient),
                               v0.value.radicand), Rat(981, 100))
                 stemming_factor ==
                     RSub(R(1), RDiv(stemming_length, RMul(R(20), hole_diameter)))
                 burden_factor == RAdd(R(1), RDiv(burden, R(10)))
                 corrected_distance ==
                     RMul(RMul(max_distance, stemming_factor), burden_factor)
                 safety_factor == Rat(15, 10)
             IN  Evaluated([max_distance |-> RMul(corrected_distance, safety_factor),
                            initial_velocity |-> v0.value,
                            launch_angle |-> 45,
                            safety_factor |-> safety_factor,
                            uncorrected_distance |-> max_distance,
                            stemming_factor |-> stemming_factor,
                            burden_factor |-> burden_factor])

\* generate_safety_zones(max_distance)
GenerateSafetyZones(max_distance) ==
    [red_zone    |-> max_distance,
     yellow_zone |-> RMul(max_distance, Rat(12, 10)),
     green_zone  |-> RMul(max_distance, Rat(15, 10))]

-----------------------------------------------------------------------------
(* visualizations/view_3d.py and view_2d.py: what a view draws.  A figure   *)
(* is the sequence of the holes drawn, each with the values the view read   *)
(* for it; index is the 0-based hole index.  hole_positions is the tuple    *)
(* (hole_positions_x, hole_positions_y) the application passes.             *)

Figure(holes) == [status |-> "returned", holes |-> holes]

\* an exception leaves the view: no figure
ViewRaised(exc) == [status |-> exc, holes |-> << >>]

\* seq[i % len(seq)] for the 0-based index i and a non-empty seq
Wrapped(seq, i) == seq[(i % Len(seq)) + 1]

RMin(a, b) == IF RLe(a, b) THEN a ELSE b

\* the title of the 3D figure: "Showing n of m Holes" or "with n Holes"
Title3D(num_holes, original_num_holes) ==
    IF original_num_holes # Unset /\ num_holes < original_num_holes[1]
    THEN [showing |-> num_holes, of |-> original_num_holes]
    ELSE [showing |-> num_holes, of |-> Unset]

\* create_cuboid_with_labeled_holes with hole_positions given: the loop over
\* range(min(num_holes, len(hole_positions_x))) and the title
CreateCuboidWithLabeledHoles(height, num_holes, hole_radii, hole_depths, explosive_lengths, xs, ys, original_num_holes) ==
    LET drawn == Min(num_holes, Len(xs))
    IN  IF drawn > 0 /\ (Len(hole_radii) = 0 \/ Len(hole_depths) = 0
                            \/ Len(explosive_lengths) = 0)
        THEN ViewRaised("ZeroDivisionError")
        ELSE Figure([i \in 1..drawn |->
                        [index |-> i - 1, x |-> xs[i], y |-> ys[i],
                         radius |-> Wrapped(hole_radii, i - 1),
                         depth |-> RMin(Wrapped(hole_depths, i - 1), height),
                         explosive |-> Wrapped(explosive_lengths, i - 1)]])
             @@ [title |-> Title3D(num_holes, original_num_holes)]

\* create_2d_top_view, burden and spacing given: the holes are placed anew on
\* the corners of the burden/spacing grid, row by row, up to num_holes
RECURSIVE TopViewLoop(_, _, _, _, _, _, _, _, _, _, _)
TopViewLoop(y_rows, x_cols, pattern, spacing, length, width, r, c, xs, ys, num_holes) ==
    IF r > Len(y_rows) THEN <<xs, ys>>
    ELSE IF c > Len(x_cols)
         THEN IF Len(xs) >= num_holes THEN <<xs, ys>>
              ELSE TopViewLoop(y_rows, x_cols, pattern, spacing, length, width,
                               r + 1, 1, xs, ys, num_holes)
    ELSE LET x_pos == IF pattern = "staggered" /\ (r - 1) % 2 = 1
                      THEN RAdd(x_cols[c], Half(spacing)) ELSE x_cols[c]
             y_pos == y_rows[r]
             inside == \/ pattern # "staggered"
                       \/ /\ RLe(R(0), x_pos) /\ RLe(x_pos, length)
                          /\ RLe(R(0), y_pos) /\ RLe(y_pos, width)
         IN  IF ~inside
             THEN TopViewLoop(y_rows, x_cols, pattern, spacing, length, width,
                              r, c + 1, xs, ys, num_holes)
             ELSE IF Len(xs) + 1 >= num_holes
             THEN <<Append(xs, x_pos), Append(ys, y_pos)>>
             ELSE TopViewLoop(y_rows, x_cols, pattern, spacing, length, width,
                              r, c + 1, Append(xs, x_pos), Append(ys, y_pos), num_holes)

\* y_positions[:-1] and x_positions[:-1] of the grid lines
TopViewGrid(length, width, num_holes, burden, spacing, pattern) ==
    LET num_rows    == Max(1, PyInt(RDiv(width, burden)))
        y_positions == Linspace(R(0), width, num_rows + 1)
        x_positions == Linspace(R(0), length, PyInt(RDiv(length, spacing)) + 1)
    IN  TopViewLoop(SubSeq(y_positions, 1, Len(y_positions) - 1),
                    SubSeq(x_positions, 1, Len(x_positions) - 1),
                    pattern, spacing, length, width, 1, 1, << >>, << >>, num_holes)

\* create_2d_top_view; grid is Unset (burden, spacing None) or Set of the two
Create2DTopView(length, width, num_holes, hole_radii, xs, ys, grid, pattern) ==
    LET placed == IF grid = Unset THEN <<xs, ys>>
                  ELSE TopViewGrid(length, width, num_holes, grid[1].burden,
                                   grid[1].spacing, pattern)
        drawn  == Min(num_holes, Len(placed[1]))
    IN  IF drawn > 0 /\ Len(hole_radii) = 0 THEN ViewRaised("ZeroDivisionError")
        ELSE Figure([i \in 1..drawn |->
                        [index |-> i - 1, x |-> placed[1][i], y |-> placed[2][i],
                         radius |-> Wrapped(hole_radii, i - 1)]])

\* sorted(set(positions)): the distinct values in ascending order
RECURSIVE SortedSet(_)
SortedSet(values) ==
    IF values = {} THEN << >>
    ELSE LET least == CHOOSE v \in values : \A u \in values : RLe(v, u)
         IN  <<least>> \o SortedSet(values \ {least})

\* create_2d_side_view (positions = hole_positions_x) and create_2d_front_view
\* (positions = hole_positions_y): one hole per distinct position, drawn with
\* the values of the first hole at that position
Create2DProfileView(num_holes, hole_radii, hole_depths, explosive_lengths, positions) ==
    LET shown  == SubSeq(positions, 1, Min(Max(num_holes, 0), Len(positions)))
        unique == SortedSet({shown[j] : j \in 1..Len(shown)})
        FirstAt(pos) == (CHOOSE j \in 1..Len(shown) :
                            /\ shown[j] = pos
                            /\ \A k \in 1..(j - 1) : shown[k] # pos) - 1
    IN  IF Len(unique) > 0 /\ (Len(hole_radii) = 0 \/ Len(hole_depths) = 0)
        THEN ViewRaised("ZeroDivisionError")
        ELSE Figure([i \in 1..Len(unique) |->
                        LET idx == FirstAt(unique[i])
                        IN  [index |-> idx, at |-> unique[i],
                             radius |-> Wrapped(hole_radii, idx),
                             depth |-> Wrapped(hole_depths, idx),
                             explosive |->
                                 IF Len(explosive_lengths) > idx
                                 THEN Set(explosive_lengths[idx + 1]) ELSE Unset]])

Create2DSideView(num_holes, hole_radii, hole_depths, explosive_lengths, xs, ys) ==
    Create2DProfileView(num_holes, hole_radii, hole_depths, explosive_lengths, xs)

Create2DFrontView(num_holes, hole_radii, hole_depths, explosive_lengths, xs, ys) ==
    Create2DProfileView(num_holes, hole_radii, hole_depths, explosive_lengths, ys)

\* the values create_2d_cross_section uses for an index its lists do not have
DEFAULT_DEPTH     == 15
DEFAULT_EXPLOSIVE == 10
DEFAULT_RADIUS    == 5

\* seq[i] if i < len(seq) else the default, for the 0-based index i
OrDefault(seq, i, default) == IF i < Len(seq) THEN seq[i + 1] ELSE R(default)

\* create_2d_cross_section with selected_cross_section = None: the holes of
\* the first row (the least y)
Create2DCrossSection(xs, ys, hole_depths, explosive_lengths, hole_radii) ==
    LET unique_rows == SortedSet({ys[j] : j \in 1..Len(ys)})
    IN  IF Len(unique_rows) = 0 THEN ViewRaised("IndexError")
        ELSE LET selected_y == unique_rows[1]
                 Near(j) == LET off == RSub(ys[j], selected_y)
                            IN  RLt([off EXCEPT !.num = Abs(off.num)], Rat(1, 1000))
                 selected_indices == SelectSeq([j \in 1..Len(ys) |-> j], Near)
             IN  Figure([i \in 1..Len(selected_indices) |->
                            LET idx == selected_indices[i] - 1
                            IN  [index |-> idx, x |-> xs[idx + 1],
                                 depth |-> OrDefault(hole_depths, idx, DEFAULT_DEPTH),
                                 explosive |-> OrDefault(explosive_lengths, idx,
                                                         DEFAULT_EXPLOSIVE),
                                 radius |-> OrDefault(hole_radii, idx, DEFAULT_RADIUS)]])

-----------------------------------------------------------------------------
(* Calls of the pattern calculator on bounded arguments                     *)

MaxLength  == 4
MaxWidth   == 3
MaxBurden  == 2
MaxSpacing == 3
MaxHoles   == 4
MaxPerRow  == 10
MaxRows    == 3

LengthSet  == (-1)..MaxLength
WidthSet   == (-1)..MaxWidth
BurdenSet  == (-1)..MaxBurden
SpacingSet == (-1)..MaxSpacing
HolesSet   == {NoLimit} \cup {Limit(k) : k \in (-1)..MaxHoles}

GridArgs ==
    [fn : {"square", "staggered"}, length : LengthSet, width : WidthSet,
     burden : BurdenSet, spacing : SpacingSet, num_holes : HolesSet,
     num_holes_per_row : {0}, num_rows : {0}, pattern : {"square"}]

ManualArgs ==
    [fn : {"manual"}, length : LengthSet, width : WidthSet,
     burden : {0}, spacing : {0}, num_holes : {NoLimit},
     num_holes_per_row : (-1)..MaxPerRow, num_rows : (-1)..MaxRows,
     pattern : {"square", "staggered"}]

CallSquare ==
    /\ args.fn = "square"
    /\ ret.status = "pending"
    /\ ret' = CalculateSquarePattern(R(args.length), R(args.width), R(args.burden),
                                     R(args.spacing), args.num_holes)
    /\ UNCHANGED <<args, widgets, run, session, clock>>

CallStaggered ==
    /\ args.fn = "staggered"
    /\ ret.status = "pending"
    /\ ret' = CalculateStaggeredPattern(R(args.length), R(args.width), R(args.burden),
                                        R(args.spacing), args.num_holes)
    /\ UNCHANGED <<args, widgets, run, session, clock>>

CallManual ==
    /\ args.fn = "manual"
    /\ ret.status = "pending"
    /\ ret' = CalculateManualPositions(R(args.length), R(args.width),
                                       args.num_holes_per_row, args.num_rows,
                                       args.pattern)
    /\ UNCHANGED <<args, widgets, run, session, clock>>

PatternInit ==
    /\ args \in GridArgs \cup ManualArgs
    /\ ret = Pending
    /\ widgets = None
    /\ run = None
    /\ session = None
    /\ clock = 0

PatternNext == CallSquare \/ CallStaggered \/ CallManual

PatternSpec == PatternInit /\ [][PatternNext]_vars

-----------------------------------------------------------------------------
(* A caller that calls the pattern calculator several times.  Here run      *)
(* holds what the caller keeps of its first call (arguments and result) and *)
(* whether a call with other arguments followed it; clock counts the calls  *)
(* already returned.                                                        *)

MaxCalls == 3

RepeatArgs ==
    [fn : {"square", "staggered"}, length : {3, 4}, width : {3},
     burden : {0, 1}, spacing : {2}, num_holes : {NoLimit, Limit(3)},
     num_holes_per_row : {0}, num_rows : {0}, pattern : {"square"}]
    \cup
    [fn : {"manual"}, length : {3, 4}, width : {3},
     burden : {0}, spacing : {0}, num_holes : {NoLimit},
     num_holes_per_row : {0, 2}, num_rows : {2},
     pattern : {"square", "staggered"}]

NoCallYet == [first |-> Unset, other |-> FALSE]

\* the caller keeps the first result and makes the next call
CallAgain ==
    /\ ret.status # "pending"
    /\ clock < MaxCalls - 1
    /\ \E a \in RepeatArgs : args' = a
    /\ ret' = Pending
    /\ run' = IF run.first = Unset
              THEN [first |-> Set([args |-> args, ret |-> ret]), other |-> FALSE]
              ELSE [run EXCEPT !.other = @ \/ args # run.first[1].args]
    /\ clock' = clock + 1
    /\ UNCHANGED <<widgets, session>>

RepeatInit ==
    /\ args \in RepeatArgs
    /\ ret = Pending
    /\ widgets = None
    /\ run = NoCallYet
    /\ session = None
    /\ clock = 0

RepeatNext == CallSquare \/ CallStaggered \/ CallManual \/ CallAgain

RepeatSpec == RepeatInit /\ [][RepeatNext]_vars

-----------------------------------------------------------------------------
(* The design formulas of app.py and the flyrock calculator, each evaluated  *)
(* once on bounded inputs                                                   *)

MaxVolumeHalves == 7
MaxBench        == 1

\* blast volumes 0, 0.5, 1, ...; bench heights down to -1, so that
\* volume_per_hole takes values of both signs and 0
HoleCountArgs ==
    [fn : {"num_holes"},
     blast_volume_option : {"Manual Selection", "Full Blast"},
     pattern : {"square", "staggered"},
     length : 1..MaxLength, width : 1..MaxWidth,
     burden : 1..MaxBurden, spacing : 1..MaxBurden,
     bench_height : (-1)..MaxBench,
     blast_volume : {Rat(k, 2) : k \in 0..MaxVolumeHalves}]

\* app.py 484-510: the geometric count, volume_per_hole and num_holes
CountHoles ==
    /\ args.fn = "num_holes"
    /\ ret.status = "pending"
    /\ LET layout == GeometricLayout(args.pattern, R(args.length), R(args.width),
                                     R(args.burden), R(args.spacing))
           volume_per_hole == VolumePerHole(R(args.burden), R(args.spacing),
                                            R(args.bench_height))
       IN  ret' = Evaluated(
               [geometric_holes |-> layout.geometric_holes,
                volume_per_hole |-> volume_per_hole,
                num_holes |-> NumHoles(args.blast_volume_option, args.blast_volume,
                                       volume_per_hole, layout.geometric_holes)])
    /\ UNCHANGED <<args, widgets, run, session, clock>>

\* the two rock inputs over their whole range, in steps of 0.1: P-wave
\* velocity 1.0 .. 7.0 km/s, rock density 1.5 .. 3.5 g/cm3
VelocityTenths == 10..70
DensityTenths  == 15..35

RockArgs ==
    [fn : {"rock_hardness"}, p_wave_velocity : {Rat(v, 10) : v \in VelocityTenths},
     rock_density : {Rat(d, 10) : d \in DensityTenths}]

\* app.py 284-303
ClassifyRock ==
    /\ args.fn = "rock_hardness"
    /\ ret.status = "pending"
    /\ ret' = Evaluated(RockHardness(args.p_wave_velocity, args.rock_density))
    /\ UNCHANGED <<args, widgets, run, session, clock>>

WaterConditions   == {"Dry", "Damp", "Wet", "Very Wet"}
RockHardnesses    == {"Very Soft", "Soft", "Medium", "Hard", "Very Hard"}
CostSensitivities == {"Low (Performance Priority)", "Medium", "High (Cost Priority)"}

ExplosiveArgs ==
    [fn : {"recommended_explosive"}, water_condition : WaterConditions,
     rock_hardness : RockHardnesses, cost_sensitivity : CostSensitivities]

\* app.py 331-359
RecommendExplosive ==
    /\ args.fn = "recommended_explosive"
    /\ ret.status = "pending"
    /\ ret' = Evaluated(RecommendedExplosive(args.water_condition, args.rock_hardness,
                                             args.cost_sensitivity))
    /\ UNCHANGED <<args, widgets, run, session, clock>>

\* arguments in and out of their ranges: signs and zeros
FlyrockArgs ==
    [fn : {"calculate_initial_velocity", "calculate_max_distance"},
     burden : {R(-1), R(0), R(3)},
     powder_factor : {R(-1), R(0), R(1)},
     rock_density : {R(-2500), R(0), R(2500)},
     explosive_density : {R(850)},
     hole_diameter : {R(0), Rat(1, 10)},
     stemming_length : {R(-1), R(0), R(3)}]

\* the estimator called on a hole design of app.py: diameter d in mm,
\* hole_diameter = d / 1000 m, stemming = burden = 0.024 d + 0.85; the
\* densities (kg/m3) are chosen to keep the exact fractions short
DesignDiameters == {80, 100, 200, 350}

DesignFlyrockArgs ==
    {[fn |-> "calculate_max_distance",
      burden |-> CalculatedBurden(d),
      powder_factor |-> pf,
      rock_density |-> R(2740),
      explosive_density |-> R(981),
      hole_diameter |-> Rat(d, 1000),
      stemming_length |-> CalculatedStemming(CalculatedBurden(d))] :
        d \in DesignDiameters, pf \in {R(0), Rat(1, 2), R(1)}}

CallInitialVelocity ==
    /\ args.fn = "calculate_initial_velocity"
    /\ ret.status = "pending"
    /\ ret' = CalculateInitialVelocity(args.powder_factor, args.rock_density,
                                       args.explosive_density)
    /\ UNCHANGED <<args, widgets, run, session, clock>>

CallMaxDistance ==
    /\ args.fn = "calculate_max_distance"
    /\ ret.status = "pending"
    /\ ret' = CalculateMaxDistance(args.burden, args.powder_factor, args.rock_density,
                                   args.explosive_density, args.hole_diameter,
                                   args.stemming_length)
    /\ UNCHANGED <<args, widgets, run, session, clock>>

\* the caller keeps the estimate in run and asks for the zones around it:
\* generate_safety_zones(result['max_distance'])
CallSafetyZones ==
    /\ args.fn = "calculate_max_distance"
    /\ ret.status = "returned"
    /\ "max_distance" \in DOMAIN ret.value
    /\ run' = ret.value
    /\ ret' = Evaluated(GenerateSafetyZones(ret.value.max_distance))
    /\ UNCHANGED <<args, widgets, session, clock>>

FormulaInit ==
    /\ args \in HoleCountArgs \cup RockArgs \cup ExplosiveArgs \cup FlyrockArgs
                \cup DesignFlyrockArgs
    /\ ret = Pending
    /\ widgets = None
    /\ run = None
    /\ session = None
    /\ clock = 0

FormulaNext ==
    \/ CountHoles \/ ClassifyRock \/ RecommendExplosive
    \/ CallInitialVelocity \/ CallMaxDistance \/ CallSafetyZones

FormulaSpec == FormulaInit /\ [][FormulaNext]_vars

-----------------------------------------------------------------------------
(* Calls of the view functions on bounded arguments                         *)

MaxViewHoles == 3
MaxSequence  == 3
ViewLength   == 3
ViewWidth    == 3
ViewHeight   == 20

\* positions row by row, two holes to a row
PositionsX(n) == [j \in 1..n |-> R(1 + ((j - 1) % 2))]
PositionsY(n) == [j \in 1..n |-> R(1 + ((j - 1) \div 2))]

\* per-hole lists of n entries, each entry different; the deepest holes reach
\* below the bench
RadiiOf(n)      == [i \in 1..n |-> R(i)]
DepthsOf(n)     == [i \in 1..n |-> R(18 + i)]
ExplosivesOf(n) == [i \in 1..n |-> R(5 + i)]

ViewArgs ==
    [fn : {"3d", "top", "side", "front", "cross"},
     num_holes : 0..MaxViewHoles,
     hole_positions : {<<PositionsX(n), PositionsY(n)>> : n \in 0..MaxViewHoles},
     hole_radii : {RadiiOf(n) : n \in 0..MaxSequence},
     hole_depths : {DepthsOf(n) : n \in 0..MaxSequence},
     explosive_lengths : {ExplosivesOf(n) : n \in 0..MaxSequence},
     grid : {Unset, Set([burden |-> R(1), spacing |-> R(2)])},
     pattern : {"square", "staggered"}]

Call3DView ==
    /\ args.fn = "3d"
    /\ ret.status = "pending"
    /\ ret' = CreateCuboidWithLabeledHoles(R(ViewHeight), args.num_holes,
                  args.hole_radii, args.hole_depths, args.explosive_lengths,
                  args.hole_positions[1], args.hole_positions[2], Unset)
    /\ UNCHANGED <<args, widgets, run, session, clock>>

CallTopView ==
    /\ args.fn = "top"
    /\ ret.status = "pending"
    /\ ret' = Create2DTopView(R(ViewLength), R(ViewWidth), args.num_holes,
                  args.hole_radii, args.hole_positions[1], args.hole_positions[2],
                  args.grid, args.pattern)
    /\ UNCHANGED <<args, widgets, run, session, clock>>

CallSideView ==
    /\ args.fn = "side"
    /\ ret.status = "pending"
    /\ ret' = Create2DSideView(args.num_holes, args.hole_radii, args.hole_depths,
                  args.explosive_lengths, args.hole_positions[1],
                  args.hole_positions[2])
    /\ UNCHANGED <<args, widgets, run, session, clock>>

CallFrontView ==
    /\ args.fn = "front"
    /\ ret.status = "pending"
    /\ ret' = Create2DFrontView(args.num_holes, args.hole_radii, args.hole_depths,
                  args.explosive_lengths, args.hole_positions[1],
                  args.hole_positions[2])
    /\ UNCHANGED <<args, widgets, run, session, clock>>

CallCrossSection ==
    /\ args.fn = "cross"
    /\ ret.status = "pending"
    /\ ret' = Create2DCrossSection(args.hole_positions[1], args.hole_positions[2],
                  args.hole_depths, args.explosive_lengths, args.hole_radii)
    /\ UNCHANGED <<args, widgets, run, session, clock>>

ViewInit ==
    /\ args \in ViewArgs
    /\ ret = Pending
    /\ widgets = None
    /\ run = None
    /\ session = None
    /\ clock = 0

ViewNext ==
    Call3DView \/ CallTopView \/ CallSideView \/ CallFrontView \/ CallCrossSection

ViewSpec == ViewInit /\ [][ViewNext]_vars

-----------------------------------------------------------------------------
(* The application: a session of script runs on bounded widget values       *)

MaxLengthSteps   == 2
MaxDiameterSteps == 3
MaxSaves         == 2

\* value of the Height input (its default)
DefaultHeight == 20

LengthChoices == {10 * i : i \in 1..MaxLengthSteps}
WidthChoices  == {10}
BenchChoices  == {R(10), R(1), Rat(195, 100)}
DiameterList  == <<200, 350, 100, 225>>
DiameterChoices ==
    {DiameterList[i] : i \in 1..Min(MaxDiameterSteps, Len(DiameterList))}

\* the volume radio and, for Manual Selection, the number entered: the input's
\* default or its maximum
VolumeChoices == {"Full Blast", "default", "max"}

\* the explosive section: method, water, rock density, P-wave velocity, cost,
\* hand-picked type (the inputs of the branch not taken hold their defaults)
ConditionChoices ==
    {[explosive_selection_method |-> "Best according to conditions",
      water_condition |-> "Dry", rock_density |-> Rat(25, 10),
      p_wave_velocity |-> Rat(35, 10), cost_sensitivity |-> "Medium",
      explosive_choice |-> "ANFO"],
     [explosive_selection_method |-> "Best according to conditions",
      water_condition |-> "Very Wet", rock_density |-> R(3),
      p_wave_velocity |-> R(5), cost_sensitivity |-> "High (Cost Priority)",
      explosive_choice |-> "ANFO"],
     [explosive_selection_method |-> "Manual selection",
      water_condition |-> "Dry", rock_density |-> Rat(25, 10),
      p_wave_velocity |-> Rat(35, 10), cost_sensitivity |-> "Medium",
      explosive_choice |-> "Slurry"]}

PatternChoices ==
    {[pattern_selection_method |-> "Use recommended pattern",
      pattern_choice |-> "Square or Rectangular"],
     [pattern_selection_method |-> "Manual selection",
      pattern_choice |-> "Staggered"]}

\* the values of the input widgets; the checkbox "Apply same parameters to all
\* holes" starts ticked
Widgets(length, width, bench_height, hole_diameter, volume, cond, pat) ==
    [length |-> length, width |-> width, height |-> DefaultHeight,
     bench_height |-> bench_height,
     blast_volume_option |->
         IF volume = "Full Blast" THEN "Full Blast" ELSE "Manual Selection",
     entered_volume |->
         IF volume = "max" THEN R(length * width * DefaultHeight)
         ELSE Half(RMul(R(length * width), bench_height)),
     hole_diameter |-> hole_diameter,
     explosive_selection_method |-> cond.explosive_selection_method,
     water_condition |-> cond.water_condition,
     rock_density |-> cond.rock_density,
     p_wave_velocity |-> cond.p_wave_velocity,
     cost_sensitivity |-> cond.cost_sensitivity,
     explosive_choice |-> cond.explosive_choice,
     pattern_selection_method |-> pat.pattern_selection_method,
     pattern_choice |-> pat.pattern_choice,
     apply_to_all |-> TRUE]

WidgetChoices ==
    {Widgets(l, w, h, d, v, c, p) :
        l \in LengthChoices, w \in WidthChoices, h \in BenchChoices,
        d \in DiameterChoices, v \in VolumeChoices, c \in ConditionChoices,
        p \in PatternChoices}

\* the session before the first button is pressed: the user has opened the page
\* and set the inputs.  Each of these runs rewrites hole_radii and hole_depths
\* in full (the checkbox is ticked) and touches nothing else of the session,
\* so the session is the one a single run on the final values leaves.
Init ==
    /\ widgets \in WidgetChoices
    /\ LET first == ScriptRun(widgets, FreshSession, "none", 0)
       IN  run = first.run /\ session = first.session
    /\ clock = 0
    /\ args = None
    /\ ret = None

\* the user presses "Visualize 3D": a run of the script with the button set
Visualize3D ==
    /\ ~run.rerun
    /\ clock < MaxSaves
    /\ clock' = clock + 1
    /\ LET pressed == ScriptRun(widgets, session, "3d", clock')
       IN  run' = pressed.run /\ session' = pressed.session
    /\ UNCHANGED <<widgets, args, ret>>

\* the user presses "Visualize 2D"
Visualize2D ==
    /\ ~run.rerun
    /\ clock < MaxSaves
    /\ clock' = clock + 1
    /\ LET pressed == ScriptRun(widgets, session, "2d", clock')
       IN  run' = pressed.run /\ session' = pressed.session
    /\ UNCHANGED <<widgets, args, ret>>

\* st.rerun(): the script runs again, no button pressed
ScriptRerun ==
    /\ run.rerun
    /\ LET again == ScriptRun(widgets, session, "none", clock)
       IN  run' = again.run /\ session' = again.session
    /\ UNCHANGED <<widgets, clock, args, ret>>

\* the user ticks or clears "Apply same parameters to all holes"
ToggleApplyToAll ==
    /\ ~run.rerun
    /\ widgets' = [widgets EXCEPT !.apply_to_all = ~@]
    /\ LET again == ScriptRun(widgets', session, "none", clock)
       IN  run' = again.run /\ session' = again.session
    /\ UNCHANGED <<clock, args, ret>>

Next == Visualize3D \/ Visualize2D \/ ScriptRerun \/ ToggleApplyToAll

Spec == Init /\ [][Next]_vars

-----------------------------------------------------------------------------
(* The list of recent configurations: calls of save_current_config and      *)
(* load_config in one session.  clock counts the saves (it is the           *)
(* timestamp of the last one); args and ret are the last call and what it   *)
(* returned.                                                                *)

MaxConfigSaves == 7

\* def load_config(config_index); None is the empty option
LoadConfig(sess, config_index) ==
    IF 0 <= config_index /\ config_index < Len(sess.recent_configs)
    THEN Set(sess.recent_configs[config_index + 1])
    ELSE Unset

\* the module namespace at the time of a save: two designs the user switches
\* between
ConfigRuns ==
    {Calculations(Widgets(10, 10, R(10), d, "Full Blast", c, p)) :
        d \in {200, 350},
        c \in {cond \in ConditionChoices : cond.explosive_choice = "Slurry"},
        p \in {pat \in PatternChoices : pat.pattern_choice = "Staggered"}}

LoadIndexes == (-2)..6

\* a button handler calls save_current_config(); it returns the project name,
\* "Project " and the length of the list
CallSaveCurrentConfig ==
    /\ clock < MaxConfigSaves
    /\ clock' = clock + 1
    /\ \E ns \in ConfigRuns : session' = SaveCurrentConfig(session, ns, clock')
    /\ args' = [fn |-> "save_current_config", config_index |-> 0]
    /\ ret' = Evaluated(Len(session'.recent_configs))
    /\ UNCHANGED <<widgets, run>>

CallLoadConfig ==
    /\ \E config_index \in LoadIndexes :
          /\ args' = [fn |-> "load_config", config_index |-> config_index]
          /\ ret' = Evaluated(LoadConfig(session, config_index))
    /\ UNCHANGED <<widgets, run, session, clock>>

ConfigInit ==
    /\ args = [fn |-> "none", config_index |-> 0]
    /\ ret = Pending
    /\ widgets = None
    /\ run = None
    /\ session = FreshSession
    /\ clock = 0

ConfigNext == CallSaveCurrentConfig \/ CallLoadConfig

ConfigSpec == ConfigInit /\ [][ConfigNext]_vars

-----------------------------------------------------------------------------
(* Properties of the pattern calculator, checked under PatternSpec          *)

IsGridCall == args.fn \in {"square", "staggered"}

PositiveGeometry ==
    /\ args.length > 0 /\ args.width > 0
    /\ IsGridCall => (args.burden > 0 /\ args.spacing > 0)

\* the call under way, made again without a limit
Untruncated ==
    IF args.fn = "square"
    THEN CalculateSquarePattern(R(args.length), R(args.width), R(args.burden),
                                R(args.spacing), NoLimit)
    ELSE CalculateStaggeredPattern(R(args.length), R(args.width), R(args.burden),
                                   R(args.spacing), NoLimit)

InArea(i) ==
    /\ RLe(R(0), ret.xs[i]) /\ RLe(ret.xs[i], R(args.length))
    /\ RLe(R(0), ret.ys[i]) /\ RLe(ret.ys[i], R(args.width))

\* C1: every hole returned by calculate_square_pattern, calculate_staggered_pattern
\* and calculate_manual_positions for length, width, burden, spacing > 0 lies in
\* [0, length] x [0, width].
C1_AreaContainment ==
    (ret.status = "returned" /\ PositiveGeometry)
        => \A i \in 1..Len(ret.xs) : InArea(i)

\* the 0-based index of the row hole i of a grid call lies in
RowIndexOf(i) ==
    LET y_positions == SquareYPositions(R(args.width), R(args.burden), ret.counts[1])
    IN  (CHOOSE r \in 1..Len(y_positions) : y_positions[r] = ret.ys[i]) - 1

\* C2: in a staggered layout of at least two rows, every hole of a row with odd
\* 0-based index has the x of some hole of an even-index row plus spacing/2.
C2_StaggeredOffset ==
    (ret.status = "returned" /\ args.fn = "staggered" /\ PositiveGeometry
        /\ ret.counts[1] >= 2)
        => \A i \in 1..Len(ret.xs) :
              RowIndexOf(i) % 2 = 1
                  => \E j \in 1..Len(ret.xs) :
                        /\ RowIndexOf(j) % 2 = 0
                        /\ ret.xs[i] = RAdd(ret.xs[j], Half(R(args.spacing)))

\* C3: with a limit k below the natural hole count, the square and staggered
\* functions return, in order, the first holes of the unlimited result and the
\* same row / holes-per-row counts.
C3_TruncationIsPrefix ==
    (ret.status = "returned" /\ IsGridCall /\ args.num_holes # NoLimit
        /\ args.num_holes[1] < Len(Untruncated.xs))
        => /\ Len(ret.xs) <= Len(Untruncated.xs)
           /\ Len(ret.ys) = Len(ret.xs)
           /\ ret.xs = SubSeq(Untruncated.xs, 1, Len(ret.xs))
           /\ ret.ys = SubSeq(Untruncated.ys, 1, Len(ret.xs))
           /\ ret.counts = Untruncated.counts

\* a limited call that stopped inside the second row at the latest
C3_Witness ==
    /\ ret.status = "returned" /\ IsGridCall /\ args.num_holes # NoLimit
    /\ args.num_holes[1] < Len(Untruncated.xs)
    /\ Len(ret.xs) = args.num_holes[1]
    /\ Len(ret.xs) >= 3
    /\ ret.ys[1] # ret.ys[Len(ret.ys)]

\* C4: with burden, spacing > 0 a limit k (0 included) below the natural count
\* yields exactly k holes; no limit, or one at or above the natural count, yields
\* the full layout.
C4_TruncatedLength ==
    (ret.status = "returned" /\ IsGridCall /\ args.burden > 0 /\ args.spacing > 0)
        => IF args.num_holes # NoLimit /\ args.num_holes[1] < Len(Untruncated.xs)
           THEN args.num_holes[1] >= 0
                    => (Len(ret.xs) = args.num_holes[1] /\ Len(ret.ys) = args.num_holes[1])
           ELSE ret = Untruncated

\* C5: with burden <= 0 or spacing <= 0 the square function returns ([], [], 0, 0)
\* and the staggered one ([], [], 0, 0, 0), whatever length, width and limit, and
\* neither raises.
C5_DegenerateReturnsEmpty ==
    (ret.status # "pending" /\ IsGridCall /\ (args.burden <= 0 \/ args.spacing <= 0))
        => ret = Returned(<< >>, << >>,
                          IF args.fn = "square" THEN <<0, 0>> ELSE <<0, 0, 0>>)

\* a call with a zero burden (a division by zero if it were not caught) returned
C5_Witness ==
    /\ ret.status = "returned" /\ IsGridCall
    /\ args.burden = 0 /\ args.spacing > 0 /\ args.length > 0 /\ args.width > 0
    /\ ret.xs = << >>

-----------------------------------------------------------------------------
(* Properties of the application, checked under Spec                        *)

Pressed == run.button \in {"3d", "2d"}

\* C6: when Visualize 3D or Visualize 2D is pressed, the generated sequence of
\* hole positions holds exactly num_holes coordinates, num_holes being the
\* hole count computed and displayed.
C6_LayoutLengthEqualsHoleCount ==
    Pressed => /\ Len(run.hole_positions_x) = run.num_holes
               /\ Len(run.hole_positions_y) = run.num_holes

\* C7: in a run where the user entered rock density and P-wave velocity and
\* chose "Use recommended pattern", the pattern used for the layout is
\* staggered if density > 2.7 or velocity > 4.5 and square otherwise, on the
\* values entered in that run.
C7_RecommendationFollowsRock ==
    (/\ run.explosive_selection_method = "Best according to conditions"
     /\ run.pattern_selection_method = "Use recommended pattern")
    => run.pattern = IF \/ RLt(Rat(27, 10), run.rock_density)
                        \/ RLt(Rat(45, 10), run.p_wave_velocity)
                     THEN "staggered" ELSE "square"

\* C8: the explosive column length is bench height + subdrilling - stemming
\* exactly, the charge per hole is density * pi * diameter^2 / 4 * column and
\* the total is charge * hole count; when the stemming is at least bench height
\* + subdrilling these are the resulting zero or negative values, never 0 or a
\* positive value put in their place.  (Charges are coefficients of pi.)
C8_ChargeColumnNotClamped ==
    LET column  == RSub(RAdd(run.bench_height, run.calculated_subdrilling),
                        run.calculated_stemming)
        area    == Rat(run.hole_diameter * run.hole_diameter, 4 * 1000 * 1000)
        density == RMul(EXPLOSIVE_DENSITIES[run.explosive_type], R(1000))
        charge  == RMul(RMul(density, area), column)
        total   == RMul(charge, R(run.num_holes))
    IN  /\ run.explosive_column_length = column
        /\ run.charge_per_hole = charge
        /\ run.total_explosive = total
        /\ RLe(RAdd(run.bench_height, run.calculated_subdrilling),
               run.calculated_stemming)
           => /\ RLe(run.explosive_column_length, R(0))
              /\ RLe(run.charge_per_hole, R(0))
              /\ RLe(run.total_explosive, R(0))

\* a run whose stemming exceeds bench height + subdrilling: negative column,
\* negative charge, negative total
C8_Witness ==
    /\ RLt(RAdd(run.bench_height, run.calculated_subdrilling), run.calculated_stemming)
    /\ run.explosive_column_length.num < 0
    /\ run.charge_per_hole.num < 0
    /\ run.total_explosive.num < 0

\* C9: the powder factor in m3/kg is blast volume / total explosive for every
\* total # 0, negative totals included, and 0 only for a total of 0; the
\* factor in kg/m3 is total / blast volume for every volume # 0 and 0 only for
\* a volume of 0; so for positive total and volume their product is 1.
C9_PowderFactor ==
    /\ run.total_explosive.num # 0
       => run.powder_factor_vol_per_explosive
              = RDiv(run.blast_volume, run.total_explosive)
    /\ (run.powder_factor_vol_per_explosive = R(0)) => (run.total_explosive = R(0))
    /\ run.blast_volume.num # 0
       => run.powder_factor_explosive_per_vol
              = RDiv(run.total_explosive, run.blast_volume)
    /\ (run.total_explosive.num > 0 /\ run.blast_volume.num > 0)
       => RMul(run.powder_factor_vol_per_explosive,
               run.powder_factor_explosive_per_vol) = R(1)

\* C10: burden B = 0.024 d + 0.85, subdrilling J = 0.4 B, stemming T = 1.0 B,
\* hole depth = h + J for every diameter d (mm) and bench height h; d = 200
\* gives B = 5.65, J = 2.26, T = 5.65 and with h = 10 a depth of 12.26.
C10_HoleDesignFormulas ==
    /\ run.calculated_burden = Rat(24 * run.hole_diameter + 850, 1000)
    /\ run.calculated_subdrilling = RMul(Rat(4, 10), run.calculated_burden)
    /\ run.calculated_stemming = run.calculated_burden
    /\ run.calculated_hole_depth = RAdd(run.bench_height, run.calculated_subdrilling)
    /\ run.hole_diameter = 200
       => /\ run.calculated_burden = Rat(565, 100)
          /\ run.calculated_subdrilling = Rat(226, 100)
          /\ run.calculated_stemming = Rat(565, 100)
          /\ run.bench_height = R(10) => run.calculated_hole_depth = Rat(1226, 100)

\* a run with d = 200 and h = 10
C10_Witness ==
    /\ run.hole_diameter = 200
    /\ run.bench_height = R(10)
    /\ run.calculated_hole_depth = Rat(1226, 100)

\* the list has an entry for each of the n holes, every entry the value of
\* this run
Aligned(list, n, value) ==
    /\ Len(list) >= n
    /\ \A i \in 1..Min(n, Len(list)) : list[i] = value

\* C17: every per-hole list the application passes to a 3D or 2D view (radii,
\* depths, explosive lengths) has at least as many entries as the num_holes
\* passed in the same call, counts above 100 included, and entry i holds the
\* values of hole i (with the parameters applied to all holes: the radius,
\* the hole depth and the column length of the run).
C17_AlignedSequences ==
    /\ (run.button = "3d" /\ session.fig # Unset /\ widgets.apply_to_all) =>
          LET call == session.fig[1]
          IN  /\ Aligned(call.hole_radii, call.num_holes, Rat(run.hole_diameter, 2000))
              /\ Aligned(call.hole_depths, call.num_holes, run.calculated_hole_depth)
              /\ Aligned(call.explosive_lengths, call.num_holes,
                         run.explosive_column_length)
    /\ (run.button = "2d" /\ session.figs_2d # Unset /\ widgets.apply_to_all) =>
          LET call == session.figs_2d[1]
          IN  /\ Aligned(call.top_hole_radii, call.num_holes,
                         Rat(run.hole_diameter, 2000))
              /\ Aligned(call.hole_radii, call.num_holes, Rat(run.hole_diameter, 2000))
              /\ Aligned(call.hole_depths, call.num_holes, run.calculated_hole_depth)
              /\ Aligned(call.explosive_lengths, call.num_holes,
                         run.explosive_column_length)

Pressed3D == run.button = "3d" /\ session.fig # Unset

\* the first n entries of the list, n or fewer
PrefixOf(part, whole, n) ==
    /\ Len(part) = IF Len(whole) < n THEN Len(whole) ELSE n
    /\ \A i \in 1..Len(part) : part[i] = whole[i]

\* C20: when Visualize 3D is pressed the 3D view is given min(num_holes, 50)
\* holes, with radii, depths and explosive lengths of exactly that many
\* entries and the positions cut to the same prefix; exceed_3d_limit is true
\* exactly when num_holes > 50 (then the figure is titled "Showing 50 of
\* num_holes"); num_holes and the total explosive keep their uncapped values.
C20_Cap3D ==
    Pressed3D =>
        LET call == session.fig[1]
            cap  == IF run.num_holes > 50 THEN 50 ELSE run.num_holes
        IN  /\ call.num_holes = cap
            /\ PrefixOf(call.hole_radii, session.hole_radii, cap)
            /\ PrefixOf(call.hole_depths, session.hole_depths, cap)
            /\ Len(call.hole_radii) = cap /\ Len(call.hole_depths) = cap
            /\ call.explosive_lengths
                   = [i \in 1..cap |-> RSub(run.calculated_hole_depth,
                                            run.calculated_stemming)]
            /\ PrefixOf(call.hole_positions_x, run.hole_positions_x, cap)
            /\ PrefixOf(call.hole_positions_y, run.hole_positions_y, cap)
            /\ session.exceed_3d_limit = Set(run.num_holes > 50)
            /\ (Title3D(call.num_holes, Set(call.original_num_holes)).of # Unset)
                   <=> run.num_holes > 50
            /\ call.original_num_holes = run.num_holes
            /\ run.num_holes = Calculations(widgets).num_holes
            /\ run.total_explosive = RMul(run.charge_per_hole, R(run.num_holes))

\* a 3D figure of 50 holes out of more
C20_Witness ==
    /\ Pressed3D
    /\ run.num_holes > 50
    /\ session.fig[1].num_holes = 50
    /\ Len(session.fig[1].hole_radii) = 50
    /\ session.exceed_3d_limit = Set(TRUE)

-----------------------------------------------------------------------------
(* Properties of the design formulas, checked under FormulaSpec             *)

HolesCounted == args.fn = "num_holes" /\ ret.status = "returned"

\* n is the integer nearest to x, the even one of the two when x is a tie
NearestTiesToEven(x, n) ==
    LET off == RSub(x, R(n))
    IN  /\ 2 * Abs(off.num) <= off.den
        /\ 2 * Abs(off.num) = off.den => n % 2 = 0

\* C11: volume_per_hole is burden * spacing * bench_height.  With Manual
\* Selection the hole count is the volume-derived count, raised to 1 when that
\* is smaller: the volume-derived count is round(blast_volume /
\* volume_per_hole) for volume_per_hole > 0, ties (2.5 gives 2, 3.5 gives 4)
\* going to the even neighbour as Python's round does, and 1 for
\* volume_per_hole <= 0.  In both modes the hole count is >= 1.
C11_HoleCountFromVolume ==
    HolesCounted =>
        /\ ret.value.volume_per_hole
               = Rat(args.burden * args.spacing * args.bench_height, 1)
        /\ ret.value.num_holes >= 1
        /\ (args.blast_volume_option = "Manual Selection"
                /\ ret.value.volume_per_hole.num > 0)
           => \E n \in 0..(2 * MaxVolumeHalves) :
                 /\ NearestTiesToEven(RDiv(args.blast_volume,
                                           ret.value.volume_per_hole), n)
                 /\ ret.value.num_holes = Max(1, n)
        /\ (args.blast_volume_option = "Manual Selection"
                /\ ret.value.volume_per_hole.num <= 0)
           => ret.value.num_holes = 1

\* a volume of exactly 2.5 holes gives 2 holes
C11_Witness ==
    /\ HolesCounted
    /\ args.blast_volume_option = "Manual Selection"
    /\ ret.value.volume_per_hole.num > 0
    /\ RDiv(args.blast_volume, ret.value.volume_per_hole) = Rat(5, 2)
    /\ ret.value.num_holes = 2

RockClassified == args.fn = "rock_hardness" /\ ret.status = "returned"

\* the bands in order: velocity limit and density limit (tenths), category
RockBands ==
    <<[v |-> 25, d |-> 22, name |-> "Very Soft"], [v |-> 35, d |-> 25, name |-> "Soft"],
      [v |-> 45, d |-> 27, name |-> "Medium"], [v |-> 55, d |-> 29, name |-> "Hard"]>>

InBand(i) ==
    /\ args.p_wave_velocity.num * 10 < RockBands[i].v * args.p_wave_velocity.den
    /\ args.rock_density.num * 10 < RockBands[i].d * args.rock_density.den

\* C12: the classification of (velocity, density) is the category of the first
\* band both of whose conditions hold (v < 2.5 and rho < 2.2 Very Soft, v < 3.5
\* and rho < 2.5 Soft, v < 4.5 and rho < 2.7 Medium, v < 5.5 and rho < 2.9
\* Hard), Very Hard when no band holds; (3.0, 2.3) is Soft and (6.0, 3.0)
\* Very Hard.
C12_RockLadder ==
    RockClassified =>
        /\ \A i \in 1..Len(RockBands) :
               (InBand(i) /\ \A j \in 1..(i - 1) : ~InBand(j))
                   => ret.value = RockBands[i].name
        /\ (\A i \in 1..Len(RockBands) : ~InBand(i)) => ret.value = "Very Hard"
        /\ (args.p_wave_velocity = R(3) /\ args.rock_density = Rat(23, 10))
               => ret.value = "Soft"
        /\ (args.p_wave_velocity = R(6) /\ args.rock_density = R(3))
               => ret.value = "Very Hard"

\* a slow but dense rock: the first two bands fail on the density alone
C12_Witness ==
    /\ RockClassified
    /\ args.p_wave_velocity = R(2)
    /\ args.rock_density = Rat(26, 10)
    /\ ret.value = "Medium"

\* the categories, softest first; band b is CategoryNames[b + 1]
CategoryNames == <<"Very Soft", "Soft", "Medium", "Hard", "Very Hard">>

VelocityCuts == <<Rat(25, 10), Rat(35, 10), Rat(45, 10), Rat(55, 10)>>
DensityCuts  == <<Rat(22, 10), Rat(25, 10), Rat(27, 10), Rat(29, 10)>>

\* the band of a value: the number of cuts at or below it
BandOf(x, cuts) == Cardinality({i \in 1..Len(cuts) : RLe(cuts[i], x)})

RankOf(name) == CHOOSE b \in 0..4 : CategoryNames[b + 1] = name

\* C28: the rock category equals max(velocity band, density band), the bands being
\* cut at 2.5, 3.5, 4.5, 5.5 and at 2.2, 2.5, 2.7, 2.9; raising either input by a
\* tenth never lowers the category; one value in the top band alone gives
\* Very Hard.
C28_HarderAxisWins ==
    RockClassified =>
        LET v == args.p_wave_velocity
            d == args.rock_density
            tenth == Rat(1, 10)
        IN  /\ ret.value = CategoryNames[Max(BandOf(v, VelocityCuts),
                                             BandOf(d, DensityCuts)) + 1]
            /\ RankOf(RockHardness(RAdd(v, tenth), d)) >= RankOf(ret.value)
            /\ RankOf(RockHardness(v, RAdd(d, tenth))) >= RankOf(ret.value)
            /\ (RLe(Rat(55, 10), v) \/ RLe(Rat(29, 10), d)) => ret.value = "Very Hard"

\* the slowest rock of the range, dense enough for the top band
C28_Witness ==
    /\ RockClassified
    /\ args.p_wave_velocity = R(1)
    /\ args.rock_density = R(3)
    /\ ret.value = "Very Hard"

ExplosiveRecommended == args.fn = "recommended_explosive" /\ ret.status = "returned"

CostPriority == args.cost_sensitivity = "High (Cost Priority)"
HardRock     == args.rock_hardness \in {"Hard", "Very Hard"}

\* C13: the recommended explosive for every water condition, rock hardness and
\* cost sensitivity: Dry and not hard rock ANFO; Dry and Hard / Very Hard ANFO
\* if cost-priority, else Heavy ANFO; Damp Heavy ANFO; Wet Heavy ANFO if
\* cost-priority, else Slurry; Very Wet and Hard / Very Hard Emulsion, Very
\* Wet otherwise Slurry if cost-priority, else Emulsion.  So ANFO is
\* recommended only for Dry holes and Emulsion only for Very Wet holes.
C13_ExplosiveTable ==
    ExplosiveRecommended =>
        /\ ret.value =
              CASE args.water_condition = "Dry" /\ ~HardRock -> "ANFO"
                [] args.water_condition = "Dry" /\ HardRock /\ CostPriority -> "ANFO"
                [] args.water_condition = "Dry" /\ HardRock /\ ~CostPriority -> "Heavy ANFO"
                [] args.water_condition = "Damp" -> "Heavy ANFO"
                [] args.water_condition = "Wet" /\ CostPriority -> "Heavy ANFO"
                [] args.water_condition = "Wet" /\ ~CostPriority -> "Slurry"
                [] args.water_condition = "Very Wet" /\ HardRock -> "Emulsion"
                [] args.water_condition = "Very Wet" /\ ~HardRock /\ CostPriority -> "Slurry"
                [] args.water_condition = "Very Wet" /\ ~HardRock /\ ~CostPriority -> "Emulsion"
        /\ ret.value = "ANFO" => args.water_condition = "Dry"
        /\ ret.value = "Emulsion" => args.water_condition = "Very Wet"

\* a damp hole with cost priority: Heavy ANFO
C13_Witness ==
    /\ ExplosiveRecommended
    /\ args.water_condition = "Damp"
    /\ CostPriority
    /\ ret.value = "Heavy ANFO"

FlyrockCalled ==
    /\ args.fn \in {"calculate_initial_velocity", "calculate_max_distance"}
    /\ ret.status # "pending"

\* C19: for all numeric arguments, in or out of the documented ranges
\* (negative or zero lengths, negative powder factor, zero rock density, zero
\* hole diameter), calculate_initial_velocity and calculate_max_distance
\* return a value and do not raise.
C19_NoExceptionOnNumbers ==
    FlyrockCalled => ret.status = "returned"

\* the estimator was called on a hole design (powder factor >= 0, positive
\* densities) and returned
DesignEstimated == args \in DesignFlyrockArgs /\ ret.status = "returned"

\* C27: on the inputs the hole design formulas produce (d in [80, 350] mm,
\* hole_diameter = d / 1000, stemming = burden = 0.024 d + 0.85), any powder
\* factor >= 0 and positive densities, calculate_max_distance returns
\* max_distance >= 0 with stemming_factor >= 0, and generate_safety_zones returns
\* 0 <= red <= yellow <= green with yellow = 1.2 and green = 1.5 max_distance.
C27_ZonesNestedNonNegative ==
    DesignEstimated
        => IF "max_distance" \in DOMAIN ret.value
           THEN /\ RLe(R(0), ret.value.max_distance)
                /\ RLe(R(0), ret.value.stemming_factor)
           ELSE /\ RLe(R(0), ret.value.red_zone)
                /\ RLe(ret.value.red_zone, ret.value.yellow_zone)
                /\ RLe(ret.value.yellow_zone, ret.value.green_zone)
                /\ ret.value.yellow_zone = RMul(Rat(12, 10), run.max_distance)
                /\ ret.value.green_zone = RMul(Rat(15, 10), run.max_distance)

-----------------------------------------------------------------------------
(* Counts and endpoints of the grids, checked under PatternSpec             *)

\* floor(a / b) of integers a and b > 0
FloorDiv(a, b) == a \div b

SquareReturned ==
    /\ args.fn = "square" /\ ret.status = "returned"
    /\ args.burden > 0 /\ args.spacing > 0

\* the sequence runs from first to last in equal steps
EvenlySpaced(seq, first, last) ==
    /\ seq[1] = first
    /\ seq[Len(seq)] = last
    /\ \A i \in 2..(Len(seq) - 1) :
           RSub(seq[i + 1], seq[i]) = RSub(seq[i], seq[i - 1])

\* C14: for burden > 0 and spacing > 0 calculate_square_pattern returns
\* rows = max(1, floor(width / burden)) and holesPerRow = max(1, floor(length /
\* spacing)); without a limit the layout has rows * holesPerRow holes, row by
\* row; two or more rows run from burden/2 to width - burden/2 in equal steps,
\* two or more columns from spacing/2 to length - spacing/2 in equal steps.
C14_SquareCountsAndEndpoints ==
    SquareReturned =>
        LET rows == Max(1, FloorDiv(args.width, args.burden))
            cols == Max(1, FloorDiv(args.length, args.spacing))
        IN  /\ ret.counts = <<rows, cols>>
            /\ args.num_holes = NoLimit =>
                  /\ Len(ret.xs) = rows * cols
                  /\ Len(ret.ys) = rows * cols
                  /\ cols >= 2 =>
                        \A r \in 1..rows :
                            EvenlySpaced(SubSeq(ret.xs, (r - 1) * cols + 1, r * cols),
                                         Rat(args.spacing, 2),
                                         Rat(2 * args.length - args.spacing, 2))
                  /\ rows >= 2 =>
                        \A c \in 1..cols :
                            EvenlySpaced([r \in 1..rows |-> ret.ys[(r - 1) * cols + c]],
                                         Rat(args.burden, 2),
                                         Rat(2 * args.width - args.burden, 2))

\* a grid of 3 rows and 4 columns without a limit
C14_Witness ==
    /\ SquareReturned
    /\ args.num_holes = NoLimit
    /\ ret.counts = <<3, 4>>
    /\ Len(ret.xs) = 12

StaggeredReturned ==
    /\ args.fn = "staggered" /\ ret.status = "returned"
    /\ args.burden > 0 /\ args.spacing > 0

\* C15: for burden > 0 and spacing > 0 calculate_staggered_pattern returns
\* rows = max(1, floor(width / burden)), holesPerOddRow = max(1, floor((length -
\* spacing/2) / spacing) + 1) and holesPerEvenRow = max(1, floor((length -
\* spacing) / spacing) + 1); without a limit the layout has ceil(rows/2) *
\* holesPerOddRow + floor(rows/2) * holesPerEvenRow holes, the geometric hole
\* count of the application for the staggered pattern.
C15_StaggeredCounts ==
    StaggeredReturned =>
        LET rows == Max(1, FloorDiv(args.width, args.burden))
            odd  == Max(1, FloorDiv(2 * args.length - args.spacing, 2 * args.spacing) + 1)
            even == Max(1, FloorDiv(args.length - args.spacing, args.spacing) + 1)
            total == ((rows + 1) \div 2) * odd + (rows \div 2) * even
        IN  /\ ret.counts = <<rows, odd, even>>
            /\ args.num_holes = NoLimit =>
                  /\ Len(ret.xs) = total
                  /\ Len(ret.ys) = total
            /\ GeometricLayout("staggered", R(args.length), R(args.width),
                               R(args.burden), R(args.spacing)).geometric_holes = total

\* three rows whose odd and even rows differ in length, without a limit
C15_Witness ==
    /\ StaggeredReturned
    /\ args.num_holes = NoLimit
    /\ ret.counts = <<3, 2, 1>>
    /\ Len(ret.xs) = 5

-----------------------------------------------------------------------------
(* Properties of the view functions, checked under ViewSpec                 *)

ViewReturned ==
    /\ args.fn \in {"3d", "top", "side", "front", "cross"}
    /\ ret.status = "returned"

\* the hole with 0-based index i has an entry of its own in the list
HasEntry(seq, i) == i < Len(seq)

\* C16: a view that is handed a per-hole list (radii, depths, explosive
\* lengths) shorter than the holes it draws fails with an error.  So in
\* every figure returned each hole drawn has an entry of its own in every
\* list the view takes, and is drawn with that entry: no default value, no
\* other hole's entry.
C16_MismatchFailsFast ==
    ViewReturned =>
        \A k \in 1..Len(ret.holes) :
            LET hole == ret.holes[k]
            IN  /\ HasEntry(args.hole_radii, hole.index)
                /\ hole.radius = args.hole_radii[hole.index + 1]
                /\ args.fn # "top" =>
                      /\ HasEntry(args.hole_depths, hole.index)
                      /\ hole.depth = IF args.fn = "3d"
                                      THEN RMin(args.hole_depths[hole.index + 1],
                                                R(ViewHeight))
                                      ELSE args.hole_depths[hole.index + 1]
                      /\ HasEntry(args.explosive_lengths, hole.index)
                      /\ hole.explosive =
                            IF args.fn \in {"side", "front"}
                            THEN Set(args.explosive_lengths[hole.index + 1])
                            ELSE args.explosive_lengths[hole.index + 1]

\* a view call on a layout without holes, every per-hole list long enough
CalledOnEmptyLayout ==
    /\ args.fn \in {"3d", "top", "side", "front", "cross"}
    /\ ret.status # "pending"
    /\ Len(args.hole_positions[1]) = 0
    /\ Len(args.hole_positions[2]) = 0
    /\ Len(args.hole_radii) >= args.num_holes
    /\ Len(args.hole_depths) >= args.num_holes
    /\ Len(args.explosive_lengths) >= args.num_holes

\* C18: on a layout of zero hole positions every view function (3D, top,
\* side, front, cross-section) returns a figure and does not raise.
C18_EmptyLayoutDisplayable ==
    CalledOnEmptyLayout => ret.status = "returned"

-----------------------------------------------------------------------------
(* Generation order and separation of the grids, checked under PatternSpec  *)

GridReturned ==
    /\ ret.status = "returned" /\ IsGridCall
    /\ args.burden > 0 /\ args.spacing > 0

\* holes i and i + 1 of the result are in generation order: the row (y) does not
\* go back, and inside one row the x does not go back
InOrder(i) ==
    /\ RLe(ret.ys[i], ret.ys[i + 1])
    /\ ret.ys[i] = ret.ys[i + 1] => RLe(ret.xs[i], ret.xs[i + 1])

\* the holes of one row are next to one another in the result
RowsContiguous ==
    \A i, j, k \in 1..Len(ret.xs) :
        (i < j /\ j < k /\ ret.ys[i] = ret.ys[k]) => ret.ys[j] = ret.ys[i]

\* C21: in the results of calculate_square_pattern and calculate_staggered_pattern
\* the holes of one row are contiguous, rows come in order of non-decreasing y and
\* the holes of a row in order of non-decreasing x; hole i (0-based) of the square
\* pattern is column i mod holesPerRow of row i div holesPerRow.
C21_RowMajorOrder ==
    GridReturned
        => /\ Len(ret.ys) = Len(ret.xs)
           /\ \A i \in 1..(Len(ret.xs) - 1) : InOrder(i)
           /\ RowsContiguous
           /\ args.fn = "square"
                 => LET per_row == ret.counts[2]
                        columns == Linspace(Half(R(args.spacing)),
                                            RSub(R(args.length), Half(R(args.spacing))),
                                            per_row)
                        rows    == Linspace(Half(R(args.burden)),
                                            RSub(R(args.width), Half(R(args.burden))),
                                            ret.counts[1])
                    IN  \A i \in 0..(Len(ret.xs) - 1) :
                           /\ ret.xs[i + 1] = columns[(i % per_row) + 1]
                           /\ ret.ys[i + 1] = rows[(i \div per_row) + 1]

\* a square layout of at least two rows of at least two different columns
C21_Witness ==
    /\ GridReturned /\ args.fn = "square"
    /\ ret.counts[1] >= 2 /\ ret.counts[2] >= 2
    /\ Len(ret.xs) = ret.counts[1] * ret.counts[2]
    /\ ret.xs[1] # ret.xs[2]
    /\ ret.ys[1] # ret.ys[Len(ret.ys)]

\* holes i < j of one row are at least spacing apart, holes of two rows at least
\* burden apart
Separated(i, j) ==
    IF ret.ys[i] = ret.ys[j]
    THEN RLe(R(args.spacing), RSub(ret.xs[j], ret.xs[i]))
    ELSE RLe(R(args.burden), RSub(ret.ys[j], ret.ys[i]))

\* C26: in every layout returned by calculate_square_pattern and
\* calculate_staggered_pattern for burden, spacing, length, width > 0, two holes
\* of the same row are at least spacing apart in x and two rows at least burden
\* apart in y; no two holes have the same coordinates.
C26_MinimumSeparation ==
    (GridReturned /\ args.length > 0 /\ args.width > 0)
        => \A i, j \in 1..Len(ret.xs) :
              i < j => /\ Separated(i, j)
                       /\ <<ret.xs[i], ret.ys[i]>> # <<ret.xs[j], ret.ys[j]>>

-----------------------------------------------------------------------------
(* calculate_manual_positions, checked under PatternSpec                    *)

ManualCalled == args.fn = "manual" /\ ret.status # "pending"

ManualEmptyCase == args.num_holes_per_row <= 0 \/ args.num_rows <= 0

XStep == RDiv(R(args.length), R(args.num_holes_per_row + 1))
YStep == RDiv(R(args.width), R(args.num_rows + 1))

\* the hole at 0-based position k of the result is at column col of row row of
\* the unshifted grid
OnGrid(k, row, col) ==
    /\ k + 1 <= Len(ret.xs)
    /\ ret.xs[k + 1] = RMul(XStep, R(col + 1))
    /\ ret.ys[k + 1] = RMul(YStep, R(row + 1))

\* C22: calculate_manual_positions returns two empty sequences when holesPerRow <= 0
\* or rows <= 0; otherwise the square pattern returns exactly rows * holesPerRow
\* holes, hole (row, col) at (xStep * (col + 1), yStep * (row + 1)) in row-major
\* order, and the staggered rows of even 0-based index have the same x positions.
C22_ManualPositions ==
    ManualCalled
        => /\ ret.status = "returned"
           /\ Len(ret.ys) = Len(ret.xs)
           /\ IF ManualEmptyCase
              THEN ret.xs = << >> /\ ret.ys = << >>
              ELSE LET per_row == args.num_holes_per_row
                   IN  /\ args.pattern = "square"
                             => /\ Len(ret.xs) = args.num_rows * per_row
                                /\ \A row \in 0..(args.num_rows - 1), col \in 0..(per_row - 1) :
                                       OnGrid(row * per_row + col, row, col)
                       /\ args.pattern = "staggered"
                             => \A row \in 0..(args.num_rows - 1), col \in 0..(per_row - 1) :
                                   row % 2 = 0 => OnGrid(row * per_row + col, row, col)

\* a square manual layout of two rows of three holes on a bench 4 long
C22_Witness ==
    /\ ManualCalled /\ args.pattern = "square"
    /\ args.num_rows = 2 /\ args.num_holes_per_row = 3 /\ args.length = 4
    /\ Len(ret.xs) = 6
    /\ ret.xs[6] = R(3)

-----------------------------------------------------------------------------
(* Repeated calls of the pattern calculator, checked under RepeatSpec       *)

\* the call that just returned has the arguments of the caller's first call
FirstCallRepeated ==
    /\ ret.status # "pending"
    /\ run.first # Unset
    /\ run.first[1].args = args

-----------------------------------------------------------------------------
(* The layout displayed by the application against the pattern calculator,  *)
(* checked under Spec                                                       *)

\* the pattern calculator called on the values of the run, maxHoles = num_holes
CalculatorLayout ==
    IF run.pattern = "square"
    THEN CalculateSquarePattern(R(run.length), R(run.width), run.calculated_burden,
                                run.calculated_spacing, Limit(run.num_holes))
    ELSE CalculateStaggeredPattern(R(run.length), R(run.width), run.calculated_burden,
                                   run.calculated_spacing, Limit(run.num_holes))

\* C24: in automatic mode the hole coordinates the application generates for the
\* 2D and 3D views are those calculate_square_pattern / calculate_staggered_pattern
\* return for the same length, width, burden, spacing and num_holes (same count,
\* order, x and y), and the row count shown is the calculator's.
C24_DisplayedLayoutIsCalculatorLayout ==
    Pressed
        => /\ run.hole_positions_x = CalculatorLayout.xs
           /\ run.hole_positions_y = CalculatorLayout.ys
           /\ run.num_rows = CalculatorLayout.counts[1]

-----------------------------------------------------------------------------
(* The spacing of the selected pattern, checked under Spec                  *)

\* B for the square pattern, 1.15 B for the staggered one
PatternSpacing ==
    IF run.pattern = "square" THEN run.calculated_burden
    ELSE RMul(Rat(115, 100), run.calculated_burden)

\* C25: after pattern selection the spacing used for the row and column counts,
\* the volume per hole, the hole count, the saved configuration and the views is
\* B when the pattern is square and 1.15 B when it is staggered, whatever spacing
\* the recommendation step proposed.
C25_SpacingFollowsPattern ==
    /\ run.pattern \in {"square", "staggered"}
    /\ run.calculated_spacing = PatternSpacing
    /\ run.volume_per_hole
           = RMul(RMul(run.calculated_burden, PatternSpacing), run.bench_height)
    /\ run.geometric_holes
           = GeometricLayout(run.pattern, R(run.length), R(run.width),
                             run.calculated_burden, PatternSpacing).geometric_holes
    /\ run.num_holes
           = NumHoles(run.blast_volume_option, run.blast_volume,
                      RMul(RMul(run.calculated_burden, PatternSpacing), run.bench_height),
                      run.geometric_holes)
    /\ Pressed => session.recent_configs[1].calculated_spacing = PatternSpacing
    /\ Pressed3D => session.fig[1].spacing = PatternSpacing
    /\ (run.button = "2d" /\ session.figs_2d # Unset)
           => session.figs_2d[1].spacing = PatternSpacing

\* a button pressed in a run whose recommendation step had proposed the
\* rectangular spacing 0.9 B + 0.91, which is not the spacing used
C25_Witness ==
    /\ Pressed3D
    /\ run.recommended_spacing = RectangularSpacing(run.calculated_burden)
    /\ run.recommended_spacing # run.calculated_spacing
    /\ session.fig[1].spacing = run.calculated_burden

-----------------------------------------------------------------------------
(* The list of recent configurations, checked under ConfigSpec              *)

\* a step of save_current_config: the new entry is in front, the earlier entries
\* follow in their order, without the last one when the list was full
SaveStep ==
    LET before == session.recent_configs
        after  == session'.recent_configs
    IN  /\ Len(after) >= 1
        /\ after[1].timestamp = clock'
        /\ Tail(after) = IF Len(before) >= 5 THEN SubSeq(before, 1, Len(before) - 1)
                         ELSE before

\* a step of load_config: the entry at a valid index, None otherwise, the list
\* as it was
LoadStep ==
    LET index == args'.config_index
        list  == session.recent_configs
    IN  /\ session' = session
        /\ ret'.value = IF index \in 0..(Len(list) - 1) THEN Set(list[index + 1])
                        ELSE Unset

\* C29: after any sequence of save_current_config calls recent_configs has at
\* most 5 entries; a save puts the new entry at index 0, keeps the others in their
\* order and, on a full list, removes exactly the last one; load_config returns
\* the entry at a valid index and None for an index outside 0..len-1 and leaves
\* the list unchanged.
C29_RecentConfigsBounded ==
    /\ [](Len(session.recent_configs) <= 5)
    /\ [][/\ args'.fn = "save_current_config" => SaveStep
          /\ args'.fn = "load_config" => LoadStep]_vars

\* the seventh save: the list is full, holds the saves 3..7, newest first
C29_Witness ==
    /\ args.fn = "save_current_config"
    /\ clock = 7
    /\ Len(session.recent_configs) = 5
    /\ session.recent_configs[1].timestamp = 7
    /\ session.recent_configs[5].timestamp = 3

-----------------------------------------------------------------------------
(* The edge clamp of calculate_manual_positions, checked under PatternSpec  *)

StaggeredManualReturned ==
    /\ ManualCalled /\ ret.status = "returned"
    /\ args.pattern = "staggered"
    /\ ~ManualEmptyCase

\* xStep / 2 + xStep * idx
OffsetX(idx) == RAdd(Half(XStep), RMul(XStep, R(idx)))

BeforeEdge(x) == RLt(x, RMul(Rat(85, 100), R(args.length)))

\* every row but the last holds holesPerRow holes, the offset ones at
\* OffsetX(idx); a last row that is an offset row holds the holes before
\* 0.85 * length and no other, a last row that is not offset holds holesPerRow
ClampedLayout ==
    LET per_row == args.num_holes_per_row
        last    == args.num_rows - 1
        in_last == Len(ret.xs) - last * per_row
    IN  /\ in_last >= 0
        /\ \A row \in 0..(last - 1), idx \in 0..(per_row - 1) :
               /\ ret.ys[row * per_row + idx + 1] = RMul(YStep, R(row + 1))
               /\ row % 2 = 1 => ret.xs[row * per_row + idx + 1] = OffsetX(idx)
        /\ \A k \in 1..in_last : ret.ys[last * per_row + k] = RMul(YStep, R(last + 1))
        /\ IF last % 2 = 1
           THEN /\ in_last <= per_row
                /\ \A k \in 1..in_last :
                       /\ BeforeEdge(ret.xs[last * per_row + k])
                       /\ \E idx \in 0..(per_row - 1) :
                              ret.xs[last * per_row + k] = OffsetX(idx)
                /\ in_last = Cardinality({idx \in 0..(per_row - 1) :
                                             BeforeEdge(OffsetX(idx))})
           ELSE in_last = per_row

\* C30 as stated: in calculate_manual_positions with pattern 'staggered' the
\* rows of odd 0-based index place hole idx at xStep / 2 + xStep * idx; when the
\* final row is such a row every hole returned for it has x < 0.85 * length and
\* the holes at or beyond 0.85 * length are dropped; every other row keeps
\* exactly holesPerRow holes.
C30_ClampAnyLength ==
    StaggeredManualReturned => ClampedLayout

\* C30 for a bench of positive length: the statement above when length > 0.
C30_ManualStaggeredClamp ==
    (StaggeredManualReturned /\ args.length > 0) => ClampedLayout

\* two rows of ten holes on a bench 4 long: the second row lost its last hole
C30_Witness ==
    /\ StaggeredManualReturned
    /\ args.length = 4 /\ args.num_rows = 2 /\ args.num_holes_per_row = 10
    /\ Len(ret.xs) = 19
    /\ ret.xs[19] = OffsetX(8)
    /\ ~BeforeEdge(OffsetX(9))

====
